---- MODULE Spec2Model ----
(***************************************************************************)
(* statio: the collection-and-normalisation pipeline of                    *)
(* src/src/system_info.cpp.  Every probe (CPU, memory, OS, disks, network, *)
(* GPU) is a function of the operating-system sources it reads; the model  *)
(* keeps those sources in osState, the value returned by the last call in  *)
(* ret, and whether an exception left that call in escaped.  snapshot is   *)
(* the SystemSnapshot value a caller hands to renderReport, history the    *)
(* (input, output) pairs of the calls made so far, and darkThemeEnabled_   *)
(* the theme flag of the main window.                                      *)
(*                                                                         *)
(* Text is modelled as a sequence of one-character strings, so that        *)
(* find / rfind / count / split / trim / stoull act on characters as the   *)
(* C++ code does.  A text file is Absent or a sequence of lines (what      *)
(* successive std::getline calls deliver).                                 *)
(*                                                                         *)
(* TLC's integers are 32 bits wide: the numeric inputs are drawn so that   *)
(* every product the code forms stays below 2^31, hence below the 2^64     *)
(* at which the code's std::uint64_t arithmetic would wrap.                *)
(***************************************************************************)
EXTENDS Integers, Sequences, FiniteSets, TLC

VARIABLES osState, ret, escaped, called, snapshot, history, darkThemeEnabled_

vars == <<osState, ret, escaped, called, snapshot, history, darkThemeEnabled_>>

----------------------------------------------------------------------------
(* Bounds of the model *)

\* longest mount table built freely from MountLines
MaxLines == 3
\* most statvfs calls that fail during one scan of a freely built table
MaxStatvfsFail == 1
\* longest interface address list
MaxIfaddrs == 3
\* highest DRM card index that may exist (the probe scans fewer)
MaxCardIndex == 8
\* longest /proc/meminfo
MaxMemLines == 2

----------------------------------------------------------------------------
(* Characters and text utilities *)

\* the characters the model's texts use, in ascending order of their codes
Alphabet ==
    <<"\t", "\n", "\r", " ", "\"", "(", ")", "*", "+", ",", "-", ".", "/",
      "0", "1", "2", "3", "4", "5", "6", "7", "8", "9", ":", "=",
      "A", "B", "C", "D", "E", "F", "G", "H", "I", "J", "K", "L", "M",
      "N", "O", "P", "Q", "R", "S", "T", "U", "V", "W", "X", "Y", "Z", "[", "]", "_",
      "a", "b", "c", "d", "e", "f", "g", "h", "i", "j", "k", "l", "m",
      "n", "o", "p", "q", "r", "s", "t", "u", "v", "w", "x", "y", "z">>

\* position of a character in Alphabet: stands for its unsigned char code
CharCode(c) == CHOOSE i \in 1..Len(Alphabet) : Alphabet[i] = c

\* std::isspace in the "C" locale
IsSpace(c) == c \in {" ", "\t", "\n", "\r"}

\* a text source: whether it can be opened, and the lines it holds
Absent == [open |-> FALSE, lines |-> <<>>]
File(lines) == [open |-> TRUE, lines |-> lines]

\* how a call ends: it returns a value, or an exception leaves it
NoReturn == <<>>
Return(v) == [threw |-> FALSE, value |-> v]
Thrown == [threw |-> TRUE, value |-> NoReturn]

Drop(s, n) == SubSeq(s, n + 1, Len(s))

\* s.rfind(p, 0) == 0
StartsWith(s, p) == Len(p) <= Len(s) /\ SubSeq(s, 1, Len(p)) = p

\* s.find(p) != npos
Contains(s, p) ==
    \E i \in 1..(Len(s) - Len(p) + 1) : SubSeq(s, i, i + Len(p) - 1) = p

\* s.find(c): index of the first c in s, 0 for npos
FindChar(s, c) ==
    IF \E i \in 1..Len(s) : s[i] = c
    THEN CHOOSE i \in 1..Len(s) : s[i] = c /\ \A j \in 1..(i - 1) : s[j] # c
    ELSE 0

\* std::count(s.begin(), s.end(), c)
CountChar(s, c) == Cardinality({i \in 1..Len(s) : s[i] = c})

\* std::string operator< : lexicographic by character code
RECURSIVE StrLess(_, _)
StrLess(a, b) ==
    IF b = <<>> THEN FALSE
    ELSE IF a = <<>> THEN TRUE
    ELSE IF a[1] # b[1] THEN CharCode(a[1]) < CharCode(b[1])
    ELSE StrLess(Tail(a), Tail(b))

trim(value) ==
    LET keep == {i \in 1..Len(value) : ~IsSpace(value[i])}
    IN  IF keep = {} THEN <<>>
        ELSE LET lo == CHOOSE i \in keep : \A j \in keep : i <= j
                 hi == CHOOSE i \in keep : \A j \in keep : j <= i
             IN  SubSeq(value, lo, hi)

\* tokens of repeated std::getline(ss, token, delimiter): an empty input has
\* no token, and a trailing delimiter opens no further (empty) token
RECURSIVE split(_, _)
split(input, delimiter) ==
    IF input = <<>> THEN <<>>
    ELSE LET i == FindChar(input, delimiter)
         IN  IF i = 0 THEN <<input>>
             ELSE <<SubSeq(input, 1, i - 1)>> \o split(Drop(input, i), delimiter)

\* fields joined by single spaces: how the model writes a line of a table
RECURSIVE JoinSp(_)
JoinSp(fields) ==
    IF fields = <<>> THEN <<>>
    ELSE IF Len(fields) = 1 THEN fields[1]
    ELSE fields[1] \o <<" ">> \o JoinSp(Tail(fields))

BytesPerMB == 1048576
BytesPerGB == 1073741824

bytesToMB(bytes) == bytes \div BytesPerMB

bytesToGB(bytes) == bytes \div BytesPerGB

----------------------------------------------------------------------------
(* Disk probe *)

S_root    == <<"/">>
S_home    == <<"/", "h", "o", "m", "e">>
S_boot    == <<"/", "b", "o", "o", "t">>
S_bootefi == <<"/", "b", "o", "o", "t", "/", "e", "f", "i">>
S_var     == <<"/", "v", "a", "r">>
S_opt     == <<"/", "o", "p", "t">>
S_mnt     == <<"/", "m", "n", "t">>
S_media   == <<"/", "m", "e", "d", "i", "a">>
S_srv     == <<"/", "s", "r", "v">>

\* mutant: allow-list without /boot/efi
allowedExact_NoBootEfi ==
    {S_root, S_home, S_boot, S_var, S_opt, S_mnt, S_media, S_srv}

\* mutant: the allow-list also holds a hidden path
allowedExact_WithHidden ==
    allowedExact_NoBootEfi \cup {S_bootefi, S_mnt \o <<"/", ".", "x">>}

allowedExact ==
    {S_root, S_home, S_boot, S_bootefi, S_var, S_opt, S_mnt, S_media, S_srv}

S_tmpfs == <<"t", "m", "p", "f", "s">>
S_proc  == <<"p", "r", "o", "c">>

pseudo ==
    {S_proc, <<"s", "y", "s", "f", "s">>, S_tmpfs,
     <<"d", "e", "v", "t", "m", "p", "f", "s">>,
     <<"c", "g", "r", "o", "u", "p">>, <<"c", "g", "r", "o", "u", "p", "2">>,
     <<"o", "v", "e", "r", "l", "a", "y">>,
     <<"s", "q", "u", "a", "s", "h", "f", "s">>,
     <<"d", "e", "v", "p", "t", "s">>,
     <<"s", "e", "c", "u", "r", "i", "t", "y", "f", "s">>,
     <<"p", "s", "t", "o", "r", "e">>, <<"m", "q", "u", "e", "u", "e">>,
     <<"t", "r", "a", "c", "e", "f", "s">>, <<"f", "u", "s", "e", "c", "t", "l">>}

DevPrefix  == <<"/", "d", "e", "v", "/">>
BindMarker == <<"b", "i", "n", "d">>
HiddenMark == <<"/", ".">>

mountDepth(mountPoint) ==
    IF mountPoint = S_root THEN 0 ELSE CountChar(mountPoint, "/")

\* mutant: every mount point counts as useful
isUsefulMountPoint_Always(mountPoint) == TRUE

isUsefulMountPoint(mountPoint) == mountPoint \in allowedExact

\* mutant: the pseudo-filesystem test is missing
PassesFilters_NoPseudo(parts, seen) ==
    /\ Len(parts) >= 4
    /\ ~(parts[2] \in seen)
    /\ StartsWith(parts[1], DevPrefix)
    /\ ~Contains(parts[4], BindMarker)
    /\ ~Contains(parts[2], HiddenMark)
    /\ ~(mountDepth(parts[2]) > 2 /\ parts[2] # S_bootefi)
    /\ isUsefulMountPoint(parts[2])

\* the filters of one mount-table line, before the capacity query
\* (parts is the line split on ' ', seen the mount points already emitted)
PassesFilters(parts, seen) ==
    /\ Len(parts) >= 4
    /\ ~(parts[3] \in pseudo \/ parts[2] \in seen)
    /\ StartsWith(parts[1], DevPrefix)
    /\ ~Contains(parts[4], BindMarker)
    /\ ~Contains(parts[2], HiddenMark)
    /\ ~(mountDepth(parts[2]) > 2 /\ parts[2] # S_bootefi)
    /\ isUsefulMountPoint(parts[2])

\* statvfs returned non-zero: the zero-initialised struct is left untouched
StatvfsFailed == [rc |-> -1, f_frsize |-> 0, f_blocks |-> 0, f_bavail |-> 0]

\* mutant: the mount point is marked seen before the capacity query
DiskStep_SeenBeforeStatvfs(line, st, acc) ==
    LET parts == split(line, " ")
    IN  IF ~PassesFilters(parts, acc.seen) THEN acc
        ELSE IF st.rc # 0 THEN [acc EXCEPT !.seen = acc.seen \cup {parts[2]}]
        ELSE [seen  |-> acc.seen \cup {parts[2]},
              disks |-> Append(acc.disks,
                               [mountPoint |-> parts[2],
                                filesystem |-> parts[3],
                                totalGB |-> bytesToGB(st.f_blocks * st.f_frsize),
                                freeGB  |-> bytesToGB(st.f_bavail * st.f_frsize)])]

\* the loop body for line i: st is the outcome of statvfs should line i reach it
DiskStep(line, st, acc) ==
    LET parts == split(line, " ")
    IN  IF ~PassesFilters(parts, acc.seen) THEN acc
        ELSE IF st.rc # 0 THEN acc
        ELSE [seen  |-> acc.seen \cup {parts[2]},
              disks |-> Append(acc.disks,
                               [mountPoint |-> parts[2],
                                filesystem |-> parts[3],
                                totalGB |-> bytesToGB(st.f_blocks * st.f_frsize),
                                freeGB  |-> bytesToGB(st.f_bavail * st.f_frsize)])]

RECURSIVE DiskLoop(_, _, _, _)
DiskLoop(lines, statvfs, i, acc) ==
    IF i > Len(lines) THEN acc
    ELSE DiskLoop(lines, statvfs, i + 1, DiskStep(lines[i], statvfs[i], acc))

\* std::sort with the comparator a.mountPoint < b.mountPoint (the keys of the
\* sequence are pairwise different, so the sorted order is unique)
RECURSIVE InsertDisk(_, _)
InsertDisk(d, sorted) ==
    IF sorted = <<>> THEN <<d>>
    ELSE IF StrLess(d.mountPoint, sorted[1].mountPoint) THEN <<d>> \o sorted
    ELSE <<sorted[1]>> \o InsertDisk(d, Tail(sorted))

\* mutant: the list is returned in table order
SortDisks_Unsorted(disks) == disks

RECURSIVE SortDisks(_)
SortDisks(disks) ==
    IF disks = <<>> THEN <<>>
    ELSE InsertDisk(disks[Len(disks)], SortDisks(SubSeq(disks, 1, Len(disks) - 1)))

\* mutant: the set of seen mount points outlives the call
collectDiskInfo_SeenKept(os) ==
    LET kept == IF history = <<>> THEN {}
                ELSE {history[Len(history)].out.disks[k].mountPoint :
                         k \in 1..Len(history[Len(history)].out.disks)}
    IN  IF ~os.mounts.open THEN Return(<<>>)
        ELSE Return(SortDisks(DiskLoop(os.mounts.lines, os.statvfs, 1,
                                       [seen |-> kept, disks |-> <<>>]).disks))

collectDiskInfo(os) ==
    IF ~os.mounts.open THEN Return(<<>>)
    ELSE Return(SortDisks(DiskLoop(os.mounts.lines, os.statvfs, 1,
                                   [seen |-> {}, disks |-> <<>>]).disks))

----------------------------------------------------------------------------
(* Numeric parsing *)

IsDigit(c) == c \in {"0", "1", "2", "3", "4", "5", "6", "7", "8", "9"}

DigitVal(c) == CharCode(c) - CharCode("0")

\* the longest prefix of s made of digits
RECURSIVE DigitPrefix(_)
DigitPrefix(s) ==
    IF s = <<>> \/ ~IsDigit(s[1]) THEN <<>>
    ELSE <<s[1]>> \o DigitPrefix(Tail(s))

RECURSIVE StripZeros(_)
StripZeros(s) ==
    IF s # <<>> /\ s[1] = "0" THEN StripZeros(Tail(s)) ELSE s

RECURSIVE SkipSpace(_)
SkipSpace(s) ==
    IF s # <<>> /\ IsSpace(s[1]) THEN SkipSpace(Tail(s)) ELSE s

RECURSIVE DecimalValue(_, _)
DecimalValue(digits, acc) ==
    IF digits = <<>> THEN acc
    ELSE DecimalValue(Tail(digits), 10 * acc + DigitVal(digits[1]))

\* ULLONG_MAX = 2^64 - 1, in decimal
UllongMaxDigits ==
    <<"1", "8", "4", "4", "6", "7", "4", "4", "0", "7",
      "3", "7", "0", "9", "5", "5", "1", "6", "1", "5">>

\* std::stoull(s), base 10: leading white space and one '+' are skipped, the
\* digits that follow are converted and the rest of s is ignored.  No digit:
\* std::invalid_argument; more than ULLONG_MAX: std::out_of_range.  Both
\* are reported as threw.  (A '-' sign, which strtoull accepts and answers
\* with a value near 2^64, is outside the texts of this model and is
\* answered as no digit.)
stoull(s) ==
    LET t      == SkipSpace(s)
        u      == IF t # <<>> /\ t[1] = "+" THEN Tail(t) ELSE t
        digits == DigitPrefix(u)
        sig    == StripZeros(digits)
    IN  IF digits = <<>> THEN [threw |-> TRUE, val |-> 0]
        ELSE IF Len(sig) > Len(UllongMaxDigits)
                \/ (Len(sig) = Len(UllongMaxDigits) /\ StrLess(UllongMaxDigits, sig))
             THEN [threw |-> TRUE, val |-> 0]
        ELSE [threw |-> FALSE, val |-> DecimalValue(sig, 0)]

\* mutant: the conversion is not inside a try block
CatchAll_Missing(r) == r

\* try { r } catch (...) { }: what is still thrown once the block is left
CatchAll(r) == [r EXCEPT !.threw = FALSE]

----------------------------------------------------------------------------
(* Network probe *)

\* a value-initialised NetworkInfo, as std::map::operator[] creates it
DefaultNetworkInfo ==
    [name |-> <<>>, ipv4 |-> <<>>, mac |-> <<>>, rxBytes |-> 0, txBytes |-> 0]

readFileFirstLine(file) ==
    IF ~file.open THEN <<>>
    ELSE trim(IF file.lines = <<>> THEN <<>> ELSE file.lines[1])

\* byName[ifaceName]: the entry of the map, created on first use
MapAt(byName, ifaceName) ==
    IF ifaceName \in DOMAIN byName THEN byName[ifaceName] ELSE DefaultNetworkInfo

MapPut(byName, ifaceName, entry) ==
    [n \in (DOMAIN byName) \cup {ifaceName} |->
        IF n = ifaceName THEN entry ELSE byName[n]]

EmptyMap == [n \in {} |-> DefaultNetworkInfo]

\* mutant: the address is tested before the map entry is created
IfaddrStep_AddrFirst(it, byName) ==
    IF ~it.hasName \/ ~it.hasAddr THEN byName
    ELSE LET named == [MapAt(byName, it.name) EXCEPT !.name = it.name]
         IN  IF it.family = "AF_INET" /\ it.rc = 0
             THEN MapPut(byName, it.name, [named EXCEPT !.ipv4 = it.host])
             ELSE MapPut(byName, it.name, named)

\* mutant: an ipv4 already stored is kept
IfaddrStep_FirstIpv4Wins(it, byName) ==
    IF ~it.hasName THEN byName
    ELSE LET named == [MapAt(byName, it.name) EXCEPT !.name = it.name]
         IN  IF ~it.hasAddr THEN MapPut(byName, it.name, named)
             ELSE IF it.family = "AF_INET" /\ it.rc = 0 /\ named.ipv4 = <<>>
                  THEN MapPut(byName, it.name, [named EXCEPT !.ipv4 = it.host])
             ELSE MapPut(byName, it.name, named)

\* the body of the loop over the address list, for one ifaddrs node
IfaddrStep(it, byName) ==
    IF ~it.hasName THEN byName
    ELSE LET named == [MapAt(byName, it.name) EXCEPT !.name = it.name]
         IN  IF ~it.hasAddr THEN MapPut(byName, it.name, named)
             ELSE IF it.family = "AF_INET" /\ it.rc = 0
                  THEN MapPut(byName, it.name, [named EXCEPT !.ipv4 = it.host])
             ELSE MapPut(byName, it.name, named)

RECURSIVE IfaddrLoop(_, _, _)
IfaddrLoop(list, i, byName) ==
    IF i > Len(list) THEN byName
    ELSE IfaddrLoop(list, i + 1, IfaddrStep(list[i], byName))

\* the two counters are parsed inside one try block: a throw of the first
\* std::stoull leaves the block before the second counter is read
ParseCounters(entry, rx, tx) ==
    LET r == stoull(rx)
        t == stoull(tx)
    IN  IF rx # <<>> /\ r.threw
        THEN IF CatchAll(r).threw THEN Thrown ELSE Return(entry)
        ELSE LET e1 == IF rx # <<>> THEN [entry EXCEPT !.rxBytes = r.val] ELSE entry
             IN  IF tx # <<>> /\ t.threw
                 THEN IF CatchAll(t).threw THEN Thrown ELSE Return(e1)
                 ELSE IF tx # <<>> THEN Return([e1 EXCEPT !.txBytes = t.val])
                 ELSE Return(e1)

\* the files /sys/class/net/<name>/{address, statistics/rx_bytes, statistics/tx_bytes}
NoSysNet == [address |-> Absent, rx_bytes |-> Absent, tx_bytes |-> Absent]

SysNetOf(os, name) ==
    IF name \in DOMAIN os.sysnet THEN os.sysnet[name] ELSE NoSysNet

\* the body of the loop over the map, for one interface
AugmentEntry(os, name, entry) ==
    LET files == SysNetOf(os, name)
        mac   == readFileFirstLine(files.address)
        rx    == readFileFirstLine(files.rx_bytes)
        tx    == readFileFirstLine(files.tx_bytes)
    IN  ParseCounters([entry EXCEPT !.mac = mac], rx, tx)

\* the keys of a std::map<std::string, ...> in iteration order
RECURSIVE KeysInOrder(_)
KeysInOrder(keys) ==
    IF keys = {} THEN <<>>
    ELSE LET least == CHOOSE k \in keys : \A o \in keys \ {k} : StrLess(k, o)
         IN  <<least>> \o KeysInOrder(keys \ {least})

\* std::sort with the comparator a.name < b.name
RECURSIVE InsertNet(_, _)
InsertNet(n, sorted) ==
    IF sorted = <<>> THEN <<n>>
    ELSE IF StrLess(n.name, sorted[1].name) THEN <<n>> \o sorted
    ELSE <<sorted[1]>> \o InsertNet(n, Tail(sorted))

RECURSIVE SortNetwork(_)
SortNetwork(list) ==
    IF list = <<>> THEN <<>>
    ELSE InsertNet(list[Len(list)], SortNetwork(SubSeq(list, 1, Len(list) - 1)))

collectNetworkInfo(os) ==
    IF os.getifaddrs.rc # 0 THEN Return(<<>>)
    ELSE LET byName == IfaddrLoop(os.getifaddrs.list, 1, EmptyMap)
             keys   == KeysInOrder(DOMAIN byName)
             done   == [k \in 1..Len(keys) |-> AugmentEntry(os, keys[k], byName[keys[k]])]
         IN  IF \E k \in 1..Len(keys) : done[k].threw THEN Thrown
             ELSE Return(SortNetwork([k \in 1..Len(keys) |-> done[k].value]))

----------------------------------------------------------------------------
(* GPU probe *)

\* number of card index slots scanned
DrmSlots == 8

S_card   == <<"c", "a", "r", "d">>
S_vendor == <<" ", "v", "e", "n", "d", "o", "r", "=">>
S_NoGpu  ==
    <<"N", "o", " ", "G", "P", "U", " ", "d", "e", "t", "a", "i", "l", "s", " ",
      "(", "p", "l", "a", "t", "f", "o", "r", "m", "-", "s", "p", "e", "c", "i",
      "f", "i", "c", " ", "c", "o", "l", "l", "e", "c", "t", "o", "r", " ",
      "n", "e", "e", "d", "e", "d", ")">>

\* std::to_string of a non-negative int
RECURSIVE to_string(_)
to_string(n) ==
    IF n < 10 THEN <<Alphabet[CharCode("0") + n]>>
    ELSE to_string(n \div 10) \o <<Alphabet[CharCode("0") + (n % 10)]>>

\* /sys/class/drm/card<i>/device/vendor
DrmVendorFile(os, i) == IF i \in DOMAIN os.drm THEN os.drm[i] ELSE Absent

\* the loop over the card index slots, from slot i on
RECURSIVE GpuLoop(_, _, _)
GpuLoop(os, i, gpus) ==
    IF i >= DrmSlots THEN gpus
    ELSE LET probe  == DrmVendorFile(os, i)
             vendor == IF probe.lines = <<>> THEN <<>> ELSE probe.lines[1]
         IN  IF ~probe.open THEN GpuLoop(os, i + 1, gpus)
             ELSE GpuLoop(os, i + 1,
                          Append(gpus, [adapter  |-> S_card \o to_string(i) \o S_vendor
                                                     \o trim(vendor),
                                        detected |-> TRUE]))

\* mutant: the placeholder is appended whatever the scan found
collectGpuInfo_AlwaysPlaceholder(os) ==
    Return(Append(GpuLoop(os, 0, <<>>), [adapter |-> S_NoGpu, detected |-> FALSE]))

collectGpuInfo(os) ==
    LET gpus == GpuLoop(os, 0, <<>>)
    IN  IF gpus = <<>> THEN Return(<<[adapter |-> S_NoGpu, detected |-> FALSE]>>)
        ELSE Return(gpus)

----------------------------------------------------------------------------
(* Memory probe *)

\* a default-constructed MemoryInfo
DefaultMemoryInfo ==
    [totalMB |-> 0, freeMB |-> 0, availableMB |-> 0, swapTotalMB |-> 0, swapFreeMB |-> 0]

S_MemAvailable == <<"M", "e", "m", "A", "v", "a", "i", "l", "a", "b", "l", "e", ":">>

KBPerMB == 1024

\* the loop over the tokens of a MemAvailable: line, from token k on: the
\* first non-empty token std::stoull accepts ends the probe
RECURSIVE FirstParsedToken(_, _)
FirstParsedToken(tokens, k) ==
    IF k > Len(tokens) THEN [found |-> FALSE, val |-> 0, threw |-> FALSE]
    ELSE IF tokens[k] = <<>> THEN FirstParsedToken(tokens, k + 1)
    ELSE LET r == stoull(tokens[k])
         IN  IF ~r.threw THEN [found |-> TRUE, val |-> r.val, threw |-> FALSE]
             ELSE IF CatchAll(r).threw THEN [found |-> FALSE, val |-> 0, threw |-> TRUE]
             ELSE FirstParsedToken(tokens, k + 1)

\* mutant: the scan goes on after a parsed line, so the last one wins
RECURSIVE MemInfoLoop_LastWins(_, _, _)
MemInfoLoop_LastWins(lines, i, info) ==
    IF i > Len(lines) THEN Return(info)
    ELSE IF ~StartsWith(lines[i], S_MemAvailable)
         THEN MemInfoLoop_LastWins(lines, i + 1, info)
    ELSE LET r == FirstParsedToken(split(lines[i], " "), 1)
         IN  IF r.threw THEN Thrown
             ELSE IF r.found
             THEN MemInfoLoop_LastWins(lines, i + 1,
                                       [info EXCEPT !.availableMB = r.val \div KBPerMB])
             ELSE MemInfoLoop_LastWins(lines, i + 1, info)

\* the loop over the lines of /proc/meminfo, from line i on
RECURSIVE MemInfoLoop(_, _, _)
MemInfoLoop(lines, i, info) ==
    IF i > Len(lines) THEN Return(info)
    ELSE IF ~StartsWith(lines[i], S_MemAvailable) THEN MemInfoLoop(lines, i + 1, info)
    ELSE LET r == FirstParsedToken(split(lines[i], " "), 1)
         IN  IF r.threw THEN Thrown
             ELSE IF r.found THEN Return([info EXCEPT !.availableMB = r.val \div KBPerMB])
             ELSE MemInfoLoop(lines, i + 1, info)

\* the record filled from a successful sysinfo call
PrimaryMemoryInfo(data) ==
    [totalMB     |-> bytesToMB(data.totalram * data.mem_unit),
     freeMB      |-> bytesToMB(data.freeram * data.mem_unit),
     availableMB |-> bytesToMB((data.freeram + data.bufferram) * data.mem_unit),
     swapTotalMB |-> bytesToMB(data.totalswap * data.mem_unit),
     swapFreeMB  |-> bytesToMB(data.freeswap * data.mem_unit)]

\* mutant: no early return when sysinfo fails
collectMemoryInfo_NoEarlyReturn(os) ==
    MemInfoLoop(os.meminfo.lines, 1,
                IF os.sysinfo.rc # 0 THEN DefaultMemoryInfo
                ELSE PrimaryMemoryInfo(os.sysinfo))

collectMemoryInfo(os) ==
    IF os.sysinfo.rc # 0 THEN Return(DefaultMemoryInfo)
    ELSE MemInfoLoop(os.meminfo.lines, 1, PrimaryMemoryInfo(os.sysinfo))

----------------------------------------------------------------------------
(* CPU probe *)

\* a default-constructed CpuInfo; currentMHz is kept in thousandths of a MHz
DefaultCpuInfo ==
    [model |-> <<>>, logicalThreads |-> 0, physicalCores |-> 0, currentMHz |-> 0]

S_model_name == <<"m", "o", "d", "e", "l", " ", "n", "a", "m", "e">>
S_cpu_cores  == <<"c", "p", "u", " ", "c", "o", "r", "e", "s">>
S_cpu_MHz    == <<"c", "p", "u", " ", "M", "H", "z">>

\* std::stoul(s): unsigned long has the width of unsigned long long here
stoul(s) == stoull(s)

\* std::stod(s) for decimal texts [white space][sign]digits[.digits], the
\* rest of s ignored; the value is answered in thousandths (further
\* fraction digits are cut).  No digit: std::invalid_argument.
stod(s) ==
    LET t      == SkipSpace(s)
        neg    == t # <<>> /\ t[1] = "-"
        u      == IF t # <<>> /\ t[1] \in {"+", "-"} THEN Tail(t) ELSE t
        whole  == DigitPrefix(u)
        afterW == Drop(u, Len(whole))
        frac   == IF afterW # <<>> /\ afterW[1] = "." THEN DigitPrefix(Tail(afterW))
                  ELSE <<>>
        frac3  == SubSeq(frac \o <<"0", "0", "0">>, 1, 3)
        mag    == 1000 * DecimalValue(whole, 0) + DecimalValue(frac3, 0)
    IN  IF whole = <<>> /\ frac = <<>> THEN [threw |-> TRUE, val |-> 0]
        ELSE [threw |-> FALSE, val |-> IF neg THEN 0 - mag ELSE mag]

\* mutant: the fields are overwritten by every line with their key
CpuStep_LastWins(line, info) ==
    LET pos   == FindChar(line, ":")
        key   == trim(SubSeq(line, 1, pos - 1))
        value == trim(Drop(line, pos))
    IN  IF pos = 0 THEN Return(info)
        ELSE IF key = S_model_name THEN Return([info EXCEPT !.model = value])
        ELSE IF key = S_cpu_cores
             THEN LET r == stoul(value)
                  IN  IF ~r.threw THEN Return([info EXCEPT !.physicalCores = r.val])
                      ELSE Return(info)
        ELSE IF key = S_cpu_MHz
             THEN LET r == stod(value)
                  IN  IF ~r.threw THEN Return([info EXCEPT !.currentMHz = r.val])
                      ELSE Return(info)
        ELSE Return(info)

\* the body of the loop over the lines of /proc/cpuinfo (the cast of the
\* parsed count to unsigned int keeps every value the model's texts hold)
CpuStep(line, info) ==
    LET pos   == FindChar(line, ":")
        key   == trim(SubSeq(line, 1, pos - 1))
        value == trim(Drop(line, pos))
    IN  IF pos = 0 THEN Return(info)
        ELSE IF key = S_model_name /\ info.model = <<>>
             THEN Return([info EXCEPT !.model = value])
        ELSE IF key = S_cpu_cores /\ info.physicalCores = 0
             THEN LET r == stoul(value)
                  IN  IF ~r.threw THEN Return([info EXCEPT !.physicalCores = r.val])
                      ELSE IF CatchAll(r).threw THEN Thrown ELSE Return(info)
        ELSE IF key = S_cpu_MHz /\ info.currentMHz <= 0
             THEN LET r == stod(value)
                  IN  IF ~r.threw THEN Return([info EXCEPT !.currentMHz = r.val])
                      ELSE IF CatchAll(r).threw THEN Thrown ELSE Return(info)
        ELSE Return(info)

RECURSIVE CpuLoop(_, _, _)
CpuLoop(lines, i, info) ==
    IF i > Len(lines) THEN Return(info)
    ELSE LET step == CpuStep(lines[i], info)
         IN  IF step.threw THEN Thrown ELSE CpuLoop(lines, i + 1, step.value)

collectCpuInfo(os) ==
    LET info == [DefaultCpuInfo EXCEPT !.logicalThreads = os.hardware_concurrency]
    IN  IF ~os.cpuinfo.open THEN Return(info)
        ELSE CpuLoop(os.cpuinfo.lines, 1, info)

----------------------------------------------------------------------------
(* OS probe *)

\* a default-constructed OsInfo
DefaultOsInfo ==
    [distro |-> <<>>, version |-> <<>>, kernel |-> <<>>,
     architecture |-> <<>>, hostname |-> <<>>]

S_PRETTY_NAME == <<"P", "R", "E", "T", "T", "Y", "_", "N", "A", "M", "E">>
S_VERSION_ID  == <<"V", "E", "R", "S", "I", "O", "N", "_", "I", "D">>

\* mutant: a quote is removed from either end on its own
Unquote_EitherEnd(value) ==
    LET front == IF value # <<>> /\ value[1] = "\"" THEN Tail(value) ELSE value
    IN  IF front # <<>> /\ front[Len(front)] = "\""
        THEN SubSeq(front, 1, Len(front) - 1)
        ELSE front

\* value.substr(1, value.size() - 2) of a value that starts and ends with a
\* double quote (for the one-character value the count wraps and the result
\* is empty)
Unquote(value) ==
    IF value # <<>> /\ value[1] = "\"" /\ value[Len(value)] = "\""
    THEN SubSeq(value, 2, Len(value) - 1)
    ELSE value

\* mutant: a field that is already set is not overwritten
OsStep_FirstWins(line, info) ==
    LET pos   == FindChar(line, "=")
        key   == SubSeq(line, 1, pos - 1)
        value == Unquote(Drop(line, pos))
    IN  IF pos = 0 THEN info
        ELSE IF key = S_PRETTY_NAME /\ info.distro = <<>> THEN [info EXCEPT !.distro = value]
        ELSE IF key = S_VERSION_ID /\ info.version = <<>> THEN [info EXCEPT !.version = value]
        ELSE info

\* the body of the loop over the lines of /etc/os-release
OsStep(line, info) ==
    LET pos   == FindChar(line, "=")
        key   == SubSeq(line, 1, pos - 1)
        value == Unquote(Drop(line, pos))
    IN  IF pos = 0 THEN info
        ELSE IF key = S_PRETTY_NAME THEN [info EXCEPT !.distro = value]
        ELSE IF key = S_VERSION_ID THEN [info EXCEPT !.version = value]
        ELSE info

RECURSIVE OsLoop(_, _, _)
OsLoop(lines, i, info) ==
    IF i > Len(lines) THEN info
    ELSE OsLoop(lines, i + 1, OsStep(lines[i], info))

collectOsInfo(os) ==
    LET named == IF os.uname.rc = 0
                 THEN [DefaultOsInfo EXCEPT !.kernel = os.uname.release,
                                            !.architecture = os.uname.machine,
                                            !.hostname = os.uname.nodename]
                 ELSE DefaultOsInfo
    IN  Return(OsLoop(os.osrelease.lines, 1, named))

----------------------------------------------------------------------------
(* Snapshot assembler *)

\* the probes run in this order; an exception that leaves one of them leaves
\* collectSystemSnapshot, which has no handler
collectSystemSnapshot(os) ==
    LET cpu     == collectCpuInfo(os)
        memory  == collectMemoryInfo(os)
        osinfo  == collectOsInfo(os)
        disks   == collectDiskInfo(os)
        network == collectNetworkInfo(os)
        gpus    == collectGpuInfo(os)
    IN  IF cpu.threw \/ memory.threw \/ osinfo.threw
           \/ disks.threw \/ network.threw \/ gpus.threw
        THEN Thrown
        ELSE Return([cpu |-> cpu.value, memory |-> memory.value, os |-> osinfo.value,
                     disks |-> disks.value, network |-> network.value,
                     gpus |-> gpus.value])

----------------------------------------------------------------------------
(* Report renderer *)

\* the string literals of renderReport
R_Title ==
    <<"S", "t", "a", "t", "i", "o", " ", "v", "0", ".", "1", " ", "-", " ",
      "H", "a", "r", "d", "w", "a", "r", "e", "/", "O", "S", " ", "D", "i",
      "a", "g", "n", "o", "s", "t", "i", "c", " ", "R", "e", "p", "o", "r",
      "t", "\n">>
R_Rule ==
    <<"=", "=", "=", "=", "=", "=", "=", "=", "=", "=", "=", "=", "=", "=",
      "=", "=", "=", "=", "=", "=", "=", "=", "=", "=", "=", "=", "=", "=",
      "=", "=", "=", "=", "=", "=", "=", "=", "=", "=", "=", "=", "=", "=",
      "\n", "\n">>
R_OS ==
    <<"[", "O", "S", "]", "\n">>
R_CPU ==
    <<"[", "C", "P", "U", "]", "\n">>
R_Memory ==
    <<"[", "M", "e", "m", "o", "r", "y", "]", "\n">>
R_Disks ==
    <<"[", "D", "i", "s", "k", "s", "]", "\n">>
R_NoDisks ==
    <<"N", "o", " ", "m", "o", "u", "n", "t", "e", "d", " ", "d", "i", "s",
      "k", "s", " ", "d", "e", "t", "e", "c", "t", "e", "d", "\n">>
R_Network ==
    <<"[", "N", "e", "t", "w", "o", "r", "k", "]", "\n">>
R_NoNetwork ==
    <<"N", "o", " ", "n", "e", "t", "w", "o", "r", "k", " ", "i", "n", "t",
      "e", "r", "f", "a", "c", "e", "s", " ", "d", "e", "t", "e", "c", "t",
      "e", "d", "\n">>
R_GPU ==
    <<"[", "G", "P", "U", "]", "\n">>
R_Footnote ==
    <<"\n", "*", "A", "v", "a", "i", "l", "a", "b", "l", "e", " ", "R", "A",
      "M", " ", "a", "p", "p", "r", "o", "x", "i", "m", "a", "t", "i", "o",
      "n", " ", "u", "s", "e", "s", " ", "f", "r", "e", "e", " ", "+", " ",
      "b", "u", "f", "f", "e", "r", " ", "m", "e", "m", "o", "r", "y", ".",
      "\n">>

NL == <<"\n">>

\* mutant: an empty text field is printed as it is
OrNA_Verbatim(text) == text

\* (text.empty() ? "N/A" : text)
OrNA(text) == IF text = <<>> THEN <<"N", "/", "A">> ELSE text

\* operator<< of an unsigned integer
ShowUnsigned(n) == to_string(n)

\* std::fixed << std::setprecision(2) of a double kept in thousandths: the
\* value rounded to hundredths, at least one digit before the point.  (The
\* values of the model have no 5 as third decimal, where the binary
\* representation of the double would decide the rounding.)
ShowFixed2(v) ==
    LET mag   == IF v < 0 THEN 0 - v ELSE v
        cents == (mag + 5) \div 10
        frac  == cents % 100
    IN  (IF v < 0 THEN <<"-">> ELSE <<>>)
        \o to_string(cents \div 100) \o <<".">>
        \o to_string(frac \div 10) \o to_string(frac % 10)

OsSection(os) ==
    R_OS
    \o <<"D", "i", "s", "t", "r", "o", ":", " ">> \o OrNA(os.distro) \o NL
    \o <<"V", "e", "r", "s", "i", "o", "n", ":", " ">> \o OrNA(os.version) \o NL
    \o <<"K", "e", "r", "n", "e", "l", ":", " ">> \o OrNA(os.kernel) \o NL
    \o <<"A", "r", "c", "h", ":", " ">> \o OrNA(os.architecture) \o NL
    \o <<"H", "o", "s", "t", ":", " ">> \o OrNA(os.hostname) \o NL \o NL

CpuSection(cpu) ==
    R_CPU
    \o <<"M", "o", "d", "e", "l", ":", " ">> \o OrNA(cpu.model) \o NL
    \o <<"P", "h", "y", "s", "i", "c", "a", "l", " ", "c", "o", "r", "e", "s", ":", " ">>
    \o ShowUnsigned(cpu.physicalCores) \o NL
    \o <<"L", "o", "g", "i", "c", "a", "l", " ", "t", "h", "r", "e", "a", "d", "s", ":", " ">>
    \o ShowUnsigned(cpu.logicalThreads) \o NL
    \o <<"C", "u", "r", "r", "e", "n", "t", " ", "M", "H", "z", ":", " ">>
    \o ShowFixed2(cpu.currentMHz) \o NL \o NL

MemorySection(memory) ==
    R_Memory
    \o <<"T", "o", "t", "a", "l", " ", "R", "A", "M", ":", " ">>
    \o ShowUnsigned(memory.totalMB) \o <<" ", "M", "B", "\n">>
    \o <<"F", "r", "e", "e", " ", "R", "A", "M", ":", " ">>
    \o ShowUnsigned(memory.freeMB) \o <<" ", "M", "B", "\n">>
    \o <<"A", "v", "a", "i", "l", "a", "b", "l", "e", " ", "R", "A", "M", "*", ":", " ">>
    \o ShowUnsigned(memory.availableMB) \o <<" ", "M", "B", "\n">>
    \o <<"T", "o", "t", "a", "l", " ", "S", "w", "a", "p", ":", " ">>
    \o ShowUnsigned(memory.swapTotalMB) \o <<" ", "M", "B", "\n">>
    \o <<"F", "r", "e", "e", " ", "S", "w", "a", "p", ":", " ">>
    \o ShowUnsigned(memory.swapFreeMB) \o <<" ", "M", "B", "\n">> \o NL

DiskLine(d) ==
    d.mountPoint \o <<" ", "(">> \o d.filesystem
        \o <<")", " ", "t", "o", "t", "a", "l", "=">>
    \o ShowUnsigned(d.totalGB) \o <<"G", "B", " ", "f", "r", "e", "e", "=">>
    \o ShowUnsigned(d.freeGB) \o <<"G", "B", "\n">>

\* the output of the loop over the disks, from entry i on
RECURSIVE DiskLines(_, _)
DiskLines(disks, i) ==
    IF i > Len(disks) THEN <<>> ELSE DiskLine(disks[i]) \o DiskLines(disks, i + 1)

\* mutant: the notice is printed whatever the sequence holds
DisksSection_AlwaysNotice(disks) ==
    R_Disks \o DiskLines(disks, 1) \o R_NoDisks \o NL

DisksSection(disks) ==
    R_Disks \o DiskLines(disks, 1)
    \o (IF disks = <<>> THEN R_NoDisks ELSE <<>>) \o NL

NetworkLine(n) ==
    n.name \o <<" ", "i", "p", "v", "4", "=">> \o OrNA(n.ipv4)
        \o <<" ", "m", "a", "c", "=">> \o OrNA(n.mac)
    \o <<" ", "r", "x", "=">> \o ShowUnsigned(n.rxBytes) \o <<" ", "t", "x", "=">>
    \o ShowUnsigned(n.txBytes) \o NL

RECURSIVE NetworkLines(_, _)
NetworkLines(network, i) ==
    IF i > Len(network) THEN <<>>
    ELSE NetworkLine(network[i]) \o NetworkLines(network, i + 1)

NetworkSection(network) ==
    R_Network \o NetworkLines(network, 1)
    \o (IF network = <<>> THEN R_NoNetwork ELSE <<>>) \o NL

RECURSIVE GpuLines(_, _)
GpuLines(gpus, i) ==
    IF i > Len(gpus) THEN <<>> ELSE gpus[i].adapter \o NL \o GpuLines(gpus, i + 1)

\* the loop is followed by no test for an empty sequence
GpuSection(gpus) == R_GPU \o GpuLines(gpus, 1)

\* mutant: the text carries a stamp that is not part of the argument
renderReport_Stamped(snapshotArg) ==
    R_Title \o R_Rule
    \o OsSection(snapshotArg.os) \o CpuSection(snapshotArg.cpu)
    \o MemorySection(snapshotArg.memory) \o DisksSection(snapshotArg.disks)
    \o NetworkSection(snapshotArg.network) \o GpuSection(snapshotArg.gpus)
    \o R_Footnote \o to_string(Len(history)) \o NL

renderReport(snapshotArg) ==
    R_Title \o R_Rule
    \o OsSection(snapshotArg.os) \o CpuSection(snapshotArg.cpu)
    \o MemorySection(snapshotArg.memory) \o DisksSection(snapshotArg.disks)
    \o NetworkSection(snapshotArg.network) \o GpuSection(snapshotArg.gpus)
    \o R_Footnote


----------------------------------------------------------------------------
(* Operating-system sources *)

\* an operating system with every source absent and every call failing
NoSources ==
    [mounts |-> Absent, statvfs |-> <<>>,
     getifaddrs |-> [rc |-> -1, list |-> <<>>],
     sysnet |-> [n \in {} |-> NoSysNet],
     drm |-> [i \in {} |-> Absent],
     sysinfo |-> [rc |-> -1, totalram |-> 0, freeram |-> 0, bufferram |-> 0,
                  totalswap |-> 0, freeswap |-> 0, mem_unit |-> 0],
     meminfo |-> Absent,
     hardware_concurrency |-> 0,
     cpuinfo |-> Absent,
     uname |-> [rc |-> -1, release |-> <<>>, machine |-> <<>>, nodename |-> <<>>],
     osrelease |-> Absent]

(* mount-table inputs *)
Dev(n) == DevPrefix \o <<"s", "d", "a", n>>
S_ext4 == <<"e", "x", "t", "4">>
S_xfs  == <<"x", "f", "s">>
S_rw   == <<"r", "w">>

MountLines ==
    { JoinSp(<<Dev("1"), S_root, S_ext4, S_rw>>),
      JoinSp(<<Dev("2"), S_root, S_xfs, S_rw>>),
      JoinSp(<<<<"r", "o", "o", "t", "f", "s">>, S_root,
               <<"r", "o", "o", "t", "f", "s">>, S_rw>>),
      JoinSp(<<Dev("3"), S_home, S_tmpfs, S_rw>>),
      JoinSp(<<Dev("4"), S_home, S_ext4, S_rw \o <<",">> \o BindMarker>>),
      JoinSp(<<Dev("5"), S_bootefi, <<"v", "f", "a", "t">>, S_rw>>),
      JoinSp(<<Dev("6"), <<"/", "a", "/", "b", "/", "c">>, S_ext4, S_rw>>),
      JoinSp(<<Dev("7"), S_mnt \o <<"/", ".", "x">>, S_ext4, S_rw>>),
      JoinSp(<<Dev("8"), <<"/", "d", "a", "t", "a">>, S_ext4, S_rw>>),
      JoinSp(<<Dev("9"), <<>>, S_opt, S_ext4, S_rw>>),
      JoinSp(<<Dev("1"), S_var>>) }

\* a table that mounts every allow-listed mount point, two of them twice
LongTable ==
    << JoinSp(<<Dev("1"), S_srv, S_ext4, S_rw>>),
       JoinSp(<<Dev("2"), S_opt, S_ext4, S_rw>>),
       JoinSp(<<Dev("3"), S_root, S_ext4, S_rw>>),
       JoinSp(<<Dev("4"), S_var, S_xfs, S_rw>>),
       JoinSp(<<Dev("5"), S_media, S_ext4, S_rw>>),
       JoinSp(<<Dev("6"), S_root, S_xfs, S_rw>>),
       JoinSp(<<Dev("7"), S_home, S_ext4, S_rw>>),
       JoinSp(<<Dev("8"), S_bootefi, <<"v", "f", "a", "t">>, S_rw>>),
       JoinSp(<<Dev("9"), S_mnt, S_ext4, S_rw>>),
       JoinSp(<<Dev("1"), S_boot, S_ext4, S_rw>>),
       JoinSp(<<Dev("2"), S_home, S_xfs, S_rw>>) >>

RECURSIVE SubSeqsOf(_)
SubSeqsOf(s) ==
    IF s = <<>> THEN {<<>>}
    ELSE LET rest == SubSeqsOf(Tail(s))
         IN  rest \cup {<<s[1]>> \o r : r \in rest}

SeqsUpTo(S, n) == UNION {[1..k -> S] : k \in 0..n}

StatvfsA == [rc |-> 0, f_frsize |-> 4096, f_blocks |-> 262144, f_bavail |-> 100000]
StatvfsB == [rc |-> 0, f_frsize |-> 512, f_blocks |-> 4194303, f_bavail |-> 2097152]

\* statvfs outcomes of a scan of n lines, at most MaxStatvfsFail of them failures
StatvfsRuns(n) ==
    {f \in [1..n -> {StatvfsFailed, StatvfsA}] :
        Cardinality({i \in 1..n : f[i].rc # 0}) <= MaxStatvfsFail}

DiskSources ==
    {[NoSources EXCEPT !.mounts = Absent]}
    \cup {[NoSources EXCEPT !.mounts = File(t), !.statvfs = s] :
             t \in SeqsUpTo(MountLines, MaxLines), s \in StatvfsRuns(MaxLines)}
    \cup {[NoSources EXCEPT !.mounts = File(t), !.statvfs = [i \in 1..Len(LongTable) |-> g]] :
             t \in SubSeqsOf(LongTable), g \in {StatvfsA, StatvfsB}}

(* interface address list inputs *)
N_eth0  == <<"e", "t", "h", "0">>
N_lo    == <<"l", "o">>
N_wlan0 == <<"w", "l", "a", "n", "0">>
IfNames == {N_eth0, N_lo, N_wlan0}

IP_a  == <<"1", "0", ".", "0", ".", "0", ".", "2">>
IP_b  == <<"1", "0", ".", "0", ".", "0", ".", "3">>
IP_lo == <<"1", "2", "7", ".", "0", ".", "0", ".", "1">>

\* one node of the list: ifa_name (or NULL), ifa_addr (or NULL) with its
\* family, and what getnameinfo would answer for it
Ifaddr(name, hasAddr, family, rc, host) ==
    [hasName |-> TRUE, name |-> name, hasAddr |-> hasAddr,
     family |-> family, rc |-> rc, host |-> host]

IfaddrNodes ==
    { Ifaddr(N_eth0, TRUE, "AF_PACKET", 0, <<>>),
      Ifaddr(N_eth0, TRUE, "AF_INET", 0, IP_a),
      Ifaddr(N_eth0, TRUE, "AF_INET", 0, IP_b),
      Ifaddr(N_eth0, TRUE, "AF_INET", -2, <<>>),
      Ifaddr(N_eth0, TRUE, "AF_INET6", 0, <<>>),
      Ifaddr(N_lo, TRUE, "AF_INET", 0, IP_lo),
      Ifaddr(N_lo, FALSE, "none", 0, <<>>),
      Ifaddr(N_wlan0, FALSE, "none", 0, <<>>),
      [hasName |-> FALSE, name |-> <<>>, hasAddr |-> FALSE,
       family |-> "none", rc |-> 0, host |-> <<>>] }

MacText == <<"0", "2", ":", "0", "0", ":", "0", "a", ":", "0", "b", ":", "0", "c", ":", "0", "d">>

SysNetProfiles ==
    { \* all three files present and well formed (the counter is padded)
      [address  |-> File(<<MacText>>),
       rx_bytes |-> File(<<<<" ", "1", "2", "3", "4", "5">>>>),
       tx_bytes |-> File(<<<<"6", "7", "8", "9">>, <<"1">>>>)],
      \* rx_bytes is not a number
      [address  |-> File(<<MacText>>),
       rx_bytes |-> File(<<<<"n", "/", "a">>>>),
       tx_bytes |-> File(<<<<"6", "7", "8", "9">>>>)],
      \* tx_bytes does not fit 64 bits, rx_bytes has trailing text
      [address  |-> Absent,
       rx_bytes |-> File(<<<<"4", "2", "k">>>>),
       tx_bytes |-> File(<<<<"9", "9", "9", "9", "9", "9", "9", "9", "9", "9", "9",
                             "9", "9", "9", "9", "9", "9", "9", "9", "9", "9">>>>)],
      \* the files exist and are empty
      [address |-> File(<<>>), rx_bytes |-> File(<<>>), tx_bytes |-> File(<<<<>>>>)] }

\* per-interface files: every interface alike, or one interface only
SysNets ==
    {[n \in {} |-> NoSysNet]}
    \cup {[n \in IfNames |-> p] : p \in SysNetProfiles}
    \cup {[n \in {m} |-> p] : m \in IfNames, p \in SysNetProfiles}

NetSources ==
    {NoSources}
    \cup {[NoSources EXCEPT !.getifaddrs = [rc |-> 0, list |-> l], !.sysnet = f] :
             l \in SeqsUpTo(IfaddrNodes, MaxIfaddrs), f \in SysNets}

(* DRM inputs *)
VendorFiles ==
    {Absent, File(<<>>), File(<<<<" ", "0", "x", "8", "0", "8", "6", "\r">>>>)}

GpuSources ==
    {[NoSources EXCEPT !.drm = f] : f \in [0..MaxCardIndex -> VendorFiles]}

(* memory inputs *)
Sysinfo(total, free, buffer, stotal, sfree, unit) ==
    [rc |-> 0, totalram |-> total, freeram |-> free, bufferram |-> buffer,
     totalswap |-> stotal, freeswap |-> sfree, mem_unit |-> unit]

SysinfoResults ==
    { NoSources.sysinfo,
      Sysinfo(524287, 100000, 20000, 262144, 262143, 4096),
      Sysinfo(2000000000, 1048575, 1, 0, 0, 1) }

S_kB == <<"k", "B">>
Num(n) == to_string(n)

MeminfoLines ==
    { JoinSp(<<<<"M", "e", "m", "T", "o", "t", "a", "l", ":">>, <<>>, <<>>, Num(2048), S_kB>>),
      JoinSp(<<S_MemAvailable, <<>>, <<>>, <<>>, Num(4096), S_kB>>),
      JoinSp(<<S_MemAvailable, Num(1023), S_kB>>),
      JoinSp(<<S_MemAvailable \o <<"\t">> \o Num(2048), S_kB>>),
      JoinSp(<<S_MemAvailable, S_kB, Num(3072)>>),
      JoinSp(<<<<>>, S_MemAvailable, Num(5120), S_kB>>),
      S_MemAvailable,
      JoinSp(<<S_MemAvailable, Num(7168) \o S_kB>>),
      JoinSp(<<S_MemAvailable \o Num(8192), Num(6144)>>),
      JoinSp(<<S_MemAvailable, UllongMaxDigits \o <<"9">>, S_kB>>) }

MemSources ==
    {[NoSources EXCEPT !.sysinfo = d, !.meminfo = f] :
        d \in SysinfoResults,
        f \in {Absent} \cup {File(l) : l \in SeqsUpTo(MeminfoLines, MaxMemLines)}}

(* whole-system inputs of the snapshot assembler: for every probe, sources
   that are absent, empty, malformed and well formed *)
S_Intel == <<"I", "n", "t", "e", "l">>

CpuInputs ==
    { [hw |-> 0, file |-> Absent],
      [hw |-> 8,
       file |-> File(<< S_model_name \o <<"\t", ":", " ">> \o S_Intel,
                        S_cpu_cores \o <<"\t", ":", " ", "x", "4">>,
                        S_cpu_MHz \o <<":">> \o <<"f", "a", "s", "t">>,
                        <<"n", "o", " ", "c", "o", "l", "o", "n">>,
                        <<>> >>)],
      [hw |-> 8,
       file |-> File(<< S_model_name \o <<"\t", ":", " ">> \o S_Intel,
                        S_cpu_cores \o <<"\t", ":", " ", "4">>,
                        S_cpu_MHz \o <<"\t", ":", " ">>
                            \o <<"2", "4", "0", "0", ".", "5", "0", "0">> >>)] }

MemInputs ==
    { [sysinfo |-> NoSources.sysinfo,
       file |-> File(<<JoinSp(<<S_MemAvailable, Num(4096), S_kB>>)>>)],
      [sysinfo |-> Sysinfo(524287, 100000, 20000, 262144, 262143, 4096),
       file |-> Absent],
      [sysinfo |-> Sysinfo(524287, 100000, 20000, 262144, 262143, 4096),
       file |-> File(<<JoinSp(<<S_MemAvailable \o <<"\t">> \o Num(2048), S_kB>>),
                       JoinSp(<<S_MemAvailable, UllongMaxDigits \o <<"9">>, S_kB>>)>>)],
      [sysinfo |-> Sysinfo(2000000000, 1048575, 1, 0, 0, 1),
       file |-> File(<<JoinSp(<<S_MemAvailable, <<>>, <<>>, Num(4096), S_kB>>)>>)] }

UnameOk ==
    [rc |-> 0, release |-> <<"6", ".", "1", ".", "0">>,
     machine |-> <<"x", "8", "6", "_", "6", "4">>,
     nodename |-> <<"h", "o", "s", "t", "1">>]

OsInputs ==
    { [uname |-> NoSources.uname, file |-> Absent],
      [uname |-> UnameOk,
       file |-> File(<< S_PRETTY_NAME \o <<"=", "\"">>,
                        <<"n", "o", " ", "e", "q", "u", "a", "l", "s">>,
                        <<"=">>,
                        <<>> >>)],
      [uname |-> UnameOk,
       file |-> File(<< S_PRETTY_NAME \o <<"=", "\"">>
                            \o <<"D", "e", "b", "i", "a", "n", " ", "1", "2">>
                            \o <<"\"">>,
                        S_VERSION_ID \o <<"=", "1", "2">> >>)] }

DiskInputs ==
    { [mounts |-> Absent, statvfs |-> <<>>],
      [mounts |-> File(<<>>), statvfs |-> <<>>],
      [mounts |-> File(<< JoinSp(<<Dev("1"), S_root, S_ext4, S_rw>>),
                          JoinSp(<<Dev("1"), S_var>>),
                          <<>>,
                          JoinSp(<<Dev("2"), S_home, S_ext4, S_rw>>) >>),
       statvfs |-> <<StatvfsFailed, StatvfsA, StatvfsA, StatvfsB>>],
      [mounts |-> File(LongTable), statvfs |-> [i \in 1..Len(LongTable) |-> StatvfsB]] }

SysNetGarbled ==
    [address |-> File(<<>>), rx_bytes |-> File(<<<<"n", "/", "a">>>>),
     tx_bytes |-> File(<<UllongMaxDigits \o <<"9">>>>)]

SysNetGood ==
    [address |-> File(<<MacText>>), rx_bytes |-> File(<<<<"1", "2", "3", "4", "5">>>>),
     tx_bytes |-> File(<<<<"6", "7", "8", "9">>>>)]

NetInputs ==
    { [getifaddrs |-> NoSources.getifaddrs, sysnet |-> NoSources.sysnet],
      [getifaddrs |-> [rc |-> 0, list |-> <<>>], sysnet |-> NoSources.sysnet],
      [getifaddrs |->
          [rc |-> 0,
           list |-> << [hasName |-> FALSE, name |-> <<>>, hasAddr |-> FALSE,
                        family |-> "none", rc |-> 0, host |-> <<>>],
                       Ifaddr(N_lo, FALSE, "none", 0, <<>>),
                       Ifaddr(N_eth0, TRUE, "AF_INET", -2, <<>>) >>],
       sysnet |-> [n \in {N_eth0} |-> SysNetGarbled]],
      [getifaddrs |->
          [rc |-> 0,
           list |-> << Ifaddr(N_lo, TRUE, "AF_INET", 0, IP_lo),
                       Ifaddr(N_eth0, TRUE, "AF_PACKET", 0, <<>>),
                       Ifaddr(N_eth0, TRUE, "AF_INET", 0, IP_a) >>],
       sysnet |-> [n \in IfNames |-> SysNetGood]] }

GpuInputs ==
    { NoSources.drm,
      [i \in 0..MaxCardIndex |->
          IF i = 0 THEN File(<<<<"0", "x", "8", "0", "8", "6">>>>)
          ELSE IF i = 3 THEN File(<<>>) ELSE Absent] }

SnapshotSources ==
    { [hardware_concurrency |-> c.hw, cpuinfo |-> c.file,
       sysinfo |-> m.sysinfo, meminfo |-> m.file,
       uname |-> o.uname, osrelease |-> o.file,
       mounts |-> d.mounts, statvfs |-> d.statvfs,
       getifaddrs |-> n.getifaddrs, sysnet |-> n.sysnet,
       drm |-> g] :
        c \in CpuInputs, m \in MemInputs, o \in OsInputs,
        d \in DiskInputs, n \in NetInputs, g \in GpuInputs }

CollectDiskInfo ==
    /\ called = "none"
    /\ ret' = collectDiskInfo(osState).value
    /\ escaped' = collectDiskInfo(osState).threw
    /\ called' = "collectDiskInfo"
    /\ UNCHANGED <<osState, snapshot, history, darkThemeEnabled_>>

CollectNetworkInfo ==
    /\ called = "none"
    /\ ret' = collectNetworkInfo(osState).value
    /\ escaped' = collectNetworkInfo(osState).threw
    /\ called' = "collectNetworkInfo"
    /\ UNCHANGED <<osState, snapshot, history, darkThemeEnabled_>>

CollectGpuInfo ==
    /\ called = "none"
    /\ ret' = collectGpuInfo(osState).value
    /\ escaped' = collectGpuInfo(osState).threw
    /\ called' = "collectGpuInfo"
    /\ UNCHANGED <<osState, snapshot, history, darkThemeEnabled_>>

CollectMemoryInfo ==
    /\ called = "none"
    /\ ret' = collectMemoryInfo(osState).value
    /\ escaped' = collectMemoryInfo(osState).threw
    /\ called' = "collectMemoryInfo"
    /\ UNCHANGED <<osState, snapshot, history, darkThemeEnabled_>>

CollectSystemSnapshot ==
    /\ called = "none"
    /\ ret' = collectSystemSnapshot(osState).value
    /\ escaped' = collectSystemSnapshot(osState).threw
    /\ called' = "collectSystemSnapshot"
    /\ UNCHANGED <<osState, snapshot, history, darkThemeEnabled_>>

\* no call made yet: nothing returned, no argument held, nothing observed,
\* the light theme of a window not yet built
NothingCalled ==
    /\ ret = NoReturn /\ escaped = FALSE /\ called = "none"
    /\ snapshot = NoReturn /\ history = <<>> /\ darkThemeEnabled_ = FALSE

InitDisk == osState \in DiskSources /\ NothingCalled

SpecDisk == InitDisk /\ [][CollectDiskInfo]_vars

InitNet == osState \in NetSources /\ NothingCalled

SpecNet == InitNet /\ [][CollectNetworkInfo]_vars

InitGpu == osState \in GpuSources /\ NothingCalled

SpecGpu == InitGpu /\ [][CollectGpuInfo]_vars

InitMem == osState \in MemSources /\ NothingCalled

SpecMem == InitMem /\ [][CollectMemoryInfo]_vars

InitSnapshot ==
    osState \in SnapshotSources /\ NothingCalled

SpecSnapshot == InitSnapshot /\ [][CollectSystemSnapshot]_vars

InitSorted ==
    osState \in DiskSources \cup NetSources /\ NothingCalled

SpecSorted == InitSorted /\ [][CollectDiskInfo \/ CollectNetworkInfo]_vars

(* the CPU probe on its own *)

\* longest /proc/cpuinfo
MaxCpuLines == 3

CpuLine(key, sep, value) == key \o sep \o value

CpuLines ==
    { CpuLine(S_model_name, <<"\t", ":", " ">>, S_Intel),
      CpuLine(S_model_name, <<"\t", ":", " ">>, <<>>),
      CpuLine(S_model_name, <<":">>, <<"A", "M", "D", " ">>),
      CpuLine(S_cpu_cores, <<"\t", ":", " ">>, <<"4">>),
      CpuLine(S_cpu_cores, <<"\t", ":", " ">>, <<"0">>),
      CpuLine(S_cpu_cores, <<"\t", ":", " ">>, <<"x", "4">>),
      CpuLine(S_cpu_cores, <<" ", ":">>, <<"8", " ", "c", "o", "r", "e", "s">>),
      CpuLine(S_cpu_MHz, <<"\t", "\t", ":", " ">>, <<"2", "4", "0", "0", ".", "5", "0", "0">>),
      CpuLine(S_cpu_MHz, <<"\t", "\t", ":", " ">>, <<"0", ".", "0", "0", "0">>),
      CpuLine(S_cpu_MHz, <<":">>, <<"f", "a", "s", "t">>),
      CpuLine(S_cpu_MHz, <<":">>, <<"1", "8", "0", "0">>),
      CpuLine(S_cpu_MHz, <<":">>, <<"-", "1">>),
      <<"c", "p", "u", " ", "c", "o", "r", "e", "s", " ", "4">>,
      CpuLine(<<"C", "P", "U", " ", "c", "o", "r", "e", "s">>, <<":">>, <<"2">>) }

CpuSources ==
    {[NoSources EXCEPT !.hardware_concurrency = 8]}
    \cup {[NoSources EXCEPT !.hardware_concurrency = n, !.cpuinfo = File(l)] :
             n \in {0, 8}, l \in SeqsUpTo(CpuLines, MaxCpuLines)}

CollectCpuInfo ==
    /\ called = "none"
    /\ ret' = collectCpuInfo(osState).value
    /\ escaped' = collectCpuInfo(osState).threw
    /\ called' = "collectCpuInfo"
    /\ UNCHANGED <<osState, snapshot, history, darkThemeEnabled_>>

InitCpu == osState \in CpuSources /\ NothingCalled

SpecCpu == InitCpu /\ [][CollectCpuInfo]_vars

(* the OS probe on its own *)

\* longest /etc/os-release
MaxOsLines == 3

S_Debian12 == <<"D", "e", "b", "i", "a", "n", " ", "1", "2">>

OsLines ==
    { S_PRETTY_NAME \o <<"=", "\"">> \o S_Debian12 \o <<"\"">>,
      S_PRETTY_NAME \o <<"=">>,
      S_PRETTY_NAME \o <<"=", "A", "r", "c", "h">>,
      S_PRETTY_NAME \o <<"=", "a", "=", "b">>,
      S_PRETTY_NAME \o <<"=", "x", "\"">>,
      S_VERSION_ID \o <<"=", "1", "2">>,
      S_VERSION_ID \o <<"=", "\"", "\"">>,
      S_VERSION_ID \o <<"=", "\"">>,
      S_VERSION_ID \o <<"=", "\"", "1", "3">>,
      S_VERSION_ID \o <<"=", "\"", "\"", "y", "\"", "\"">>,
      <<"N", "A", "M", "E", "=">> \o S_PRETTY_NAME \o <<"=", "x">>,
      S_PRETTY_NAME,
      <<" ">> \o S_VERSION_ID \o <<"=", "9">> }

OsSources ==
    {NoSources, [NoSources EXCEPT !.uname = UnameOk]}
    \cup {[NoSources EXCEPT !.uname = u, !.osrelease = File(l)] :
             u \in {NoSources.uname, UnameOk}, l \in SeqsUpTo(OsLines, MaxOsLines)}

CollectOsInfo ==
    /\ called = "none"
    /\ ret' = collectOsInfo(osState).value
    /\ escaped' = collectOsInfo(osState).threw
    /\ called' = "collectOsInfo"
    /\ UNCHANGED <<osState, snapshot, history, darkThemeEnabled_>>

InitOs == osState \in OsSources /\ NothingCalled

SpecOs == InitOs /\ [][CollectOsInfo]_vars

(* the renderer on its own: any SystemSnapshot value may be handed to it *)

\* most calls of renderReport in one run
MaxRenders == 2

OsValues ==
    {[distro |-> d, version |-> v, kernel |-> k, architecture |-> a, hostname |-> h] :
        d \in {<<>>, S_Debian12}, v \in {<<>>, <<"1", "2">>},
        k \in {<<>>, UnameOk.release}, a \in {<<>>, UnameOk.machine},
        h \in {<<>>, UnameOk.nodename}}

CpuValues ==
    {DefaultCpuInfo,
     [model |-> S_Intel, logicalThreads |-> 8, physicalCores |-> 4, currentMHz |-> 2400500]}

MemoryValue ==
    [totalMB |-> 2047, freeMB |-> 390, availableMB |-> 468,
     swapTotalMB |-> 1024, swapFreeMB |-> 1023]

DiskValue(mountPoint, filesystem, totalGB, freeGB) ==
    [mountPoint |-> mountPoint, filesystem |-> filesystem,
     totalGB |-> totalGB, freeGB |-> freeGB]

NetworkValue(name, ipv4, mac, rxBytes, txBytes) ==
    [name |-> name, ipv4 |-> ipv4, mac |-> mac, rxBytes |-> rxBytes, txBytes |-> txBytes]

\* the three sequences of a snapshot: empty and non-empty in several mixes,
\* the disks not in sorted order (the renderer takes any sequence)
SequenceValues ==
    LET d1 == DiskValue(S_root, S_ext4, 100, 40)
        d2 == DiskValue(S_home, S_xfs, 0, 0)
        n1 == NetworkValue(N_lo, <<>>, <<>>, 0, 0)
        n2 == NetworkValue(N_eth0, IP_a, <<>>, 12345, 6789)
        n3 == NetworkValue(N_lo, <<>>, MacText, 0, 1)
        n4 == NetworkValue(N_wlan0, IP_b, MacText, 1, 0)
        g0 == [adapter |-> S_NoGpu, detected |-> FALSE]
        g1 == [adapter |-> S_card \o <<"0">> \o S_vendor
            \o <<"0", "x", "8", "0", "8", "6">>,
               detected |-> TRUE]
        g2 == [adapter |-> S_card \o <<"1">> \o S_vendor, detected |-> TRUE]
    IN  {[disks |-> <<>>, network |-> <<>>, gpus |-> <<>>],
         [disks |-> <<>>, network |-> <<n2, n3>>, gpus |-> <<g0>>],
         [disks |-> <<d1>>, network |-> <<>>, gpus |-> <<g1, g2>>],
         [disks |-> <<d2, d1>>, network |-> <<n1>>, gpus |-> <<>>],
         [disks |-> <<d1>>, network |-> <<n4>>, gpus |-> <<g0>>],
         [disks |-> <<d2, d1>>, network |-> <<n2, n3>>, gpus |-> <<g1, g2>>]}

RenderSnapshots ==
    {[cpu |-> c, memory |-> MemoryValue, os |-> o,
      disks |-> t.disks, network |-> t.network, gpus |-> t.gpus] :
        c \in CpuValues, o \in OsValues, t \in SequenceValues}

\* operating-system states between which the machine moves while the
\* program runs
LiveSources ==
    {x \in SnapshotSources :
        /\ x.cpuinfo.open /\ x.osrelease.open
        /\ Len(x.cpuinfo.lines) = Len(x.osrelease.lines) + 1
        /\ x.sysinfo.rc = 0 /\ ~x.meminfo.open
        /\ x.mounts.open /\ Len(x.mounts.lines) \in {0, Len(LongTable)}
        /\ x.getifaddrs.rc = 0 /\ Len(x.getifaddrs.list) = 3
        /\ (x.mounts.lines = <<>>) = (DOMAIN x.sysnet = {N_eth0})
        /\ x.drm = NoSources.drm
        /\ ~(Len(x.cpuinfo.lines) = 5 /\ x.mounts.lines = <<>>)}

\* the operating-system state changes under the running program
OsChanges ==
    /\ \E o \in LiveSources : o # osState /\ osState' = o
    /\ UNCHANGED <<ret, escaped, called, snapshot, history, darkThemeEnabled_>>

\* one call renderReport(snapshot)
RenderReport ==
    /\ Len(history) < MaxRenders
    /\ ret' = renderReport(snapshot)
    /\ escaped' = FALSE
    /\ called' = "renderReport"
    /\ history' = Append(history, [call |-> "renderReport", os |-> osState,
                                   out |-> renderReport(snapshot)])
    /\ UNCHANGED <<osState, snapshot, darkThemeEnabled_>>

InitRender ==
    /\ osState \in LiveSources
    /\ snapshot \in RenderSnapshots
    /\ ret = NoReturn /\ escaped = FALSE /\ called = "none"
    /\ history = <<>> /\ darkThemeEnabled_ = FALSE

SpecRender == InitRender /\ [][RenderReport \/ OsChanges]_vars

(* the main window: it collects on construction, on every timeout of its
   timer and on every click of Refresh Now *)

\* most collections in one run
MaxRefreshes == 3

\* MainWindow::refreshReport: one collection, whose result fills the widgets
refreshReport ==
    /\ ret' = collectSystemSnapshot(osState).value
    /\ escaped' = collectSystemSnapshot(osState).threw
    /\ history' = Append(history, [call |-> "refreshReport", os |-> osState,
                                   out |-> collectSystemSnapshot(osState).value])
    /\ UNCHANGED <<osState, snapshot>>

\* the constructor: light theme, the initial refresh, the timer started
MainWindowCtor ==
    /\ called = "none"
    /\ darkThemeEnabled_' = FALSE
    /\ refreshReport
    /\ called' = "MainWindow"

\* QTimer::timeout of refreshTimer_ (every 5 seconds once started)
TimerTimeout ==
    /\ called # "none"
    /\ Len(history) < MaxRefreshes
    /\ refreshReport
    /\ called' = "timeout"
    /\ UNCHANGED darkThemeEnabled_

\* QPushButton::clicked of refreshButton_
RefreshNowClicked ==
    /\ called # "none"
    /\ Len(history) < MaxRefreshes
    /\ refreshReport
    /\ called' = "clicked"
    /\ UNCHANGED darkThemeEnabled_

setLightTheme ==
    /\ called # "none"
    /\ darkThemeEnabled_' = FALSE
    /\ UNCHANGED <<osState, ret, escaped, called, snapshot, history>>

setDarkTheme ==
    /\ called # "none"
    /\ darkThemeEnabled_' = TRUE
    /\ UNCHANGED <<osState, ret, escaped, called, snapshot, history>>

InitWindow == osState \in LiveSources /\ NothingCalled

SpecWindow ==
    InitWindow
    /\ [][MainWindowCtor \/ TimerTimeout \/ RefreshNowClicked
           \/ setLightTheme \/ setDarkTheme \/ OsChanges]_vars

----------------------------------------------------------------------------
(* Properties of the disk probe *)

MountTable == osState.mounts.lines
PartsOf(i) == split(MountTable[i], " ")
Least(S) == CHOOSE i \in S : \A j \in S : i <= j

\* the lines of the table (with their four fields) whose mount point is mp
LinesWithMountPoint(mp) ==
    {i \in 1..Len(MountTable) : Len(PartsOf(i)) >= 4 /\ PartsOf(i)[2] = mp}

\* the mount points that several lines of the table name
DuplicatedMountPoints ==
    {mp \in {PartsOf(i)[2] : i \in {j \in 1..Len(MountTable) : Len(PartsOf(j)) >= 4}} :
        Cardinality(LinesWithMountPoint(mp)) >= 2}

EntriesFor(mp) == {k \in 1..Len(ret) : ret[k].mountPoint = mp}

\* the lines naming mp that pass every filter and whose capacity query succeeds
AcceptableLines(mp) ==
    {i \in LinesWithMountPoint(mp) :
        PassesFilters(PartsOf(i), {}) /\ osState.statvfs[i].rc = 0}

\* C2 as stated: a mount point named by several lines has exactly one entry,
\* and the entry carries the filesystem type of the first of those lines.
C2_FirstLineWins ==
    called = "collectDiskInfo" =>
        \A mp \in DuplicatedMountPoints :
            /\ Cardinality(EntriesFor(mp)) = 1
            /\ \A k \in EntriesFor(mp) :
                  ret[k].filesystem = PartsOf(Least(LinesWithMountPoint(mp)))[3]

\* C2 (amended): a mount point named by several lines has at most one entry;
\* it has one exactly when some of those lines passes every filter and has a
\* successful capacity query, and the entry is then built from the first such
\* line (its filesystem type and the capacity answered for that line).
C2_FirstAcceptedLineWins ==
    called = "collectDiskInfo" =>
        \A mp \in DuplicatedMountPoints :
            IF AcceptableLines(mp) = {} THEN EntriesFor(mp) = {}
            ELSE /\ Cardinality(EntriesFor(mp)) = 1
                 /\ \A k \in EntriesFor(mp) :
                       LET i == Least(AcceptableLines(mp))
                       IN  /\ ret[k].filesystem = PartsOf(i)[3]
                           /\ ret[k].totalGB =
                                (osState.statvfs[i].f_blocks * osState.statvfs[i].f_frsize)
                                    \div 1073741824

\* a later line of a duplicated mount point is the one that is reported
C2_Witness ==
    /\ called = "collectDiskInfo"
    /\ \E mp \in DuplicatedMountPoints :
          /\ AcceptableLines(mp) # {}
          /\ Least(AcceptableLines(mp)) # Least(LinesWithMountPoint(mp))
          /\ \E k \in EntriesFor(mp) :
                ret[k].filesystem # PartsOf(Least(LinesWithMountPoint(mp)))[3]

\* C3: no line whose filesystem type is a pseudo filesystem produces an
\* entry, whatever its other fields and its place in the table: no entry
\* carries such a line's mount point and type, and no entry has a pseudo type.
C3_PseudoNeverListed ==
    called = "collectDiskInfo" =>
        /\ \A k \in 1..Len(ret) : ret[k].filesystem \notin pseudo
        /\ \A i \in 1..Len(MountTable) :
              (Len(PartsOf(i)) >= 3 /\ PartsOf(i)[3] \in pseudo) =>
                  ~\E k \in 1..Len(ret) :
                      /\ ret[k].mountPoint = PartsOf(i)[2]
                      /\ ret[k].filesystem = PartsOf(i)[3]

\* a pseudo-filesystem line that every other test would let through
C3_Witness ==
    /\ called = "collectDiskInfo"
    /\ \E i \in 1..Len(MountTable) :
          /\ Len(PartsOf(i)) >= 4
          /\ PartsOf(i)[3] \in pseudo
          /\ StartsWith(PartsOf(i)[1], DevPrefix)
          /\ PartsOf(i)[2] \in allowedExact
          /\ ~Contains(PartsOf(i)[4], BindMarker)
          /\ osState.statvfs[i].rc = 0
          /\ EntriesFor(PartsOf(i)[2]) = {}

\* C4: every entry has an allow-listed mount point and comes from a line whose
\* source begins with /dev/ and whose options lack the bind marker; the
\* output has at most 9 entries.
C4_OnlyUsefulDeviceMounts ==
    called = "collectDiskInfo" =>
        /\ \A k \in 1..Len(ret) :
              /\ ret[k].mountPoint \in allowedExact
              /\ \E i \in 1..Len(MountTable) :
                    /\ Len(PartsOf(i)) >= 4
                    /\ PartsOf(i)[2] = ret[k].mountPoint
                    /\ PartsOf(i)[3] = ret[k].filesystem
                    /\ StartsWith(PartsOf(i)[1], DevPrefix)
                    /\ ~Contains(PartsOf(i)[4], BindMarker)
        /\ Cardinality(allowedExact) = 9
        /\ Len(ret) <= 9

\* a table of more than 9 lines fills all 9 places
C4_Witness ==
    /\ called = "collectDiskInfo"
    /\ Len(MountTable) > 9
    /\ Len(ret) = 9

\* C5: a mount point with three or more '/' has no entry even when its line
\* is otherwise eligible, and an eligible /boot/efi line is not excluded.
C5_DepthRule ==
    called = "collectDiskInfo" =>
        /\ \A k \in 1..Len(ret) : CountChar(ret[k].mountPoint, "/") < 3
        /\ \A i \in 1..Len(MountTable) :
              ( /\ Len(PartsOf(i)) >= 4
                /\ PartsOf(i)[2] = S_bootefi
                /\ PartsOf(i)[3] \notin pseudo
                /\ StartsWith(PartsOf(i)[1], DevPrefix)
                /\ ~Contains(PartsOf(i)[4], BindMarker)
                /\ osState.statvfs[i].rc = 0 )
              => EntriesFor(S_bootefi) # {}

\* an otherwise eligible line of depth 3 is dropped while /boot/efi is kept
C5_Witness ==
    /\ called = "collectDiskInfo"
    /\ EntriesFor(S_bootefi) # {}
    /\ \E i \in 1..Len(MountTable) :
          /\ Len(PartsOf(i)) >= 4
          /\ CountChar(PartsOf(i)[2], "/") >= 3
          /\ PartsOf(i)[3] \notin pseudo
          /\ StartsWith(PartsOf(i)[1], DevPrefix)
          /\ ~Contains(PartsOf(i)[4], BindMarker)
          /\ osState.statvfs[i].rc = 0
          /\ EntriesFor(PartsOf(i)[2]) = {}

----------------------------------------------------------------------------
(* Sort order of the disk and network sequences *)

\* C6: the disks are strictly ascending by mountPoint and the interfaces
\* strictly ascending by name, so neither sequence repeats a key.
C6_StrictlyAscending ==
    /\ called = "collectDiskInfo" =>
          /\ \A k \in 1..(Len(ret) - 1) : StrLess(ret[k].mountPoint, ret[k + 1].mountPoint)
          /\ \A j, k \in 1..Len(ret) : j # k => ret[j].mountPoint # ret[k].mountPoint
    /\ called = "collectNetworkInfo" =>
          /\ \A k \in 1..(Len(ret) - 1) : StrLess(ret[k].name, ret[k + 1].name)
          /\ \A j, k \in 1..Len(ret) : j # k => ret[j].name # ret[k].name

\* the table lists two reported mount points in descending order
C6_Witness ==
    /\ called = "collectDiskInfo"
    /\ Len(ret) >= 2
    /\ \E i, j \in 1..Len(MountTable) :
          /\ i < j
          /\ Len(PartsOf(i)) >= 2 /\ Len(PartsOf(j)) >= 2
          /\ EntriesFor(PartsOf(i)[2]) # {} /\ EntriesFor(PartsOf(j)[2]) # {}
          /\ StrLess(PartsOf(j)[2], PartsOf(i)[2])

----------------------------------------------------------------------------
(* Properties of the network probe *)

IfaddrList == osState.getifaddrs.list

\* the interface names the enumeration reports, and those among them that
\* have a null address on every one of their nodes
ReportedNames == {IfaddrList[i].name : i \in {j \in 1..Len(IfaddrList) : IfaddrList[j].hasName}}

NamesWithoutAddress ==
    {n \in ReportedNames :
        \A i \in 1..Len(IfaddrList) :
            (IfaddrList[i].hasName /\ IfaddrList[i].name = n) => ~IfaddrList[i].hasAddr}

NetEntriesFor(n) == {k \in 1..Len(ret) : ret[k].name = n}

\* C7 as stated: an interface reported without any address has exactly one
\* entry, with empty ipv4, empty mac and zero counters.
C7_AddresslessAllDefault ==
    (called = "collectNetworkInfo" /\ osState.getifaddrs.rc = 0) =>
        \A n \in NamesWithoutAddress :
            /\ Cardinality(NetEntriesFor(n)) = 1
            /\ \A k \in NetEntriesFor(n) :
                  /\ ret[k].ipv4 = <<>>
                  /\ ret[k].mac = <<>>
                  /\ ret[k].rxBytes = 0
                  /\ ret[k].txBytes = 0

\* C7 (amended): an interface reported without any address has exactly one
\* entry, with an empty ipv4; its mac is the trimmed first line of its address
\* file, and mac and counters are empty and 0 when its files are absent.
C7_AddresslessHasEntry ==
    (called = "collectNetworkInfo" /\ osState.getifaddrs.rc = 0) =>
        \A n \in NamesWithoutAddress :
            /\ Cardinality(NetEntriesFor(n)) = 1
            /\ \A k \in NetEntriesFor(n) :
                  /\ ret[k].ipv4 = <<>>
                  /\ ret[k].mac = readFileFirstLine(SysNetOf(osState, n).address)
                  /\ SysNetOf(osState, n) = NoSysNet =>
                        (ret[k].mac = <<>> /\ ret[k].rxBytes = 0 /\ ret[k].txBytes = 0)

\* an address-less interface whose files give it a mac and counters
C7_Witness ==
    /\ called = "collectNetworkInfo"
    /\ \E n \in NamesWithoutAddress :
          \E k \in NetEntriesFor(n) :
              ret[k].ipv4 = <<>> /\ ret[k].mac # <<>> /\ ret[k].rxBytes > 0 /\ ret[k].txBytes > 0

----------------------------------------------------------------------------
(* Properties of the GPU probe *)

\* the scanned card indices that have a vendor file
CardsWithVendor == {i \in 0..7 : DrmVendorFile(osState, i).open}

\* C8: the result is never empty; with no vendor file in slots 0..7 it is one
\* entry with detected = FALSE; otherwise it has one detected entry per index
\* with a vendor file, in ascending index order, and no placeholder.
C8_GpuNeverEmpty ==
    called = "collectGpuInfo" =>
        /\ ret # <<>>
        /\ CardsWithVendor = {} => (Len(ret) = 1 /\ ~ret[1].detected /\ ret[1].adapter = S_NoGpu)
        /\ CardsWithVendor # {} =>
              /\ Len(ret) = Cardinality(CardsWithVendor)
              /\ \A k \in 1..Len(ret) : ret[k].detected
              /\ \A i \in CardsWithVendor :
                    StartsWith(ret[Cardinality({j \in CardsWithVendor : j < i}) + 1].adapter,
                               S_card \o to_string(i) \o S_vendor)

\* some but not all scanned slots have a vendor file, and so has card 8
C8_Witness ==
    /\ called = "collectGpuInfo"
    /\ Cardinality(CardsWithVendor) \in 2..7
    /\ DrmVendorFile(osState, 8).open
    /\ Len(ret) = Cardinality(CardsWithVendor)

----------------------------------------------------------------------------
(* Properties of the memory probe *)

MeminfoText == osState.meminfo.lines

\* <<line, token>> places of /proc/meminfo holding a non-empty token that
\* parses, on a line that begins with MemAvailable:
ParsableAvailable ==
    {p \in UNION {{<<i, k>> : k \in 1..Len(split(MeminfoText[i], " "))} :
                     i \in 1..Len(MeminfoText)} :
        /\ StartsWith(MeminfoText[p[1]], S_MemAvailable)
        /\ split(MeminfoText[p[1]], " ")[p[2]] # <<>>
        /\ ~stoull(split(MeminfoText[p[1]], " ")[p[2]]).threw}

\* the first of them in reading order
FirstParsableAvailable ==
    CHOOSE p \in ParsableAvailable :
        \A q \in ParsableAvailable : p[1] < q[1] \/ (p[1] = q[1] /\ p[2] <= q[2])

\* C9: after a successful sysinfo, availableMB is the first parsable
\* MemAvailable: number divided by 1024 when there is one, and otherwise
\* (freeram + bufferram) * mem_unit in MB; the four other fields are the
\* sysinfo values in MB in both cases.
C9_MemAvailableOverride ==
    (called = "collectMemoryInfo" /\ osState.sysinfo.rc = 0) =>
        LET d == osState.sysinfo
        IN  /\ ParsableAvailable = {} =>
                  ret.availableMB = ((d.freeram + d.bufferram) * d.mem_unit) \div 1048576
            /\ ParsableAvailable # {} =>
                  ret.availableMB =
                      stoull(split(MeminfoText[FirstParsableAvailable[1]], " ")
                                 [FirstParsableAvailable[2]]).val \div 1024
            /\ ret.totalMB = (d.totalram * d.mem_unit) \div 1048576
            /\ ret.freeMB = (d.freeram * d.mem_unit) \div 1048576
            /\ ret.swapTotalMB = (d.totalswap * d.mem_unit) \div 1048576
            /\ ret.swapFreeMB = (d.freeswap * d.mem_unit) \div 1048576

\* a parsed MemAvailable: line replaces a different primary estimate
C9_Witness ==
    /\ called = "collectMemoryInfo"
    /\ osState.sysinfo.rc = 0
    /\ ParsableAvailable # {}
    /\ ret.availableMB > 0
    /\ ret.availableMB #
          ((osState.sysinfo.freeram + osState.sysinfo.bufferram) * osState.sysinfo.mem_unit)
              \div 1048576

----------------------------------------------------------------------------
(* Properties of the snapshot assembler *)

\* a text: a finite sequence of characters
IsText(t) == DOMAIN t = 1..Len(t)

\* C1: whatever sources are absent, empty or malformed and whatever calls
\* (sysinfo, uname, statvfs, getifaddrs, getnameinfo) fail, no exception leaves
\* collectSystemSnapshot and the value returned has all six parts, every part
\* with all its fields; with nothing to read the sequences are empty but for
\* the single not-detected GPU entry.
C1_SnapshotAlwaysComplete ==
    called = "collectSystemSnapshot" =>
        /\ ~escaped
        /\ DOMAIN ret = {"cpu", "memory", "os", "disks", "network", "gpus"}
        /\ DOMAIN ret.cpu = {"model", "logicalThreads", "physicalCores", "currentMHz"}
        /\ IsText(ret.cpu.model)
        /\ ret.cpu.logicalThreads = osState.hardware_concurrency
        /\ ret.cpu.physicalCores \in Nat
        /\ ret.cpu.currentMHz \in Int
        /\ DOMAIN ret.memory =
              {"totalMB", "freeMB", "availableMB", "swapTotalMB", "swapFreeMB"}
        /\ \A f \in DOMAIN ret.memory : ret.memory[f] \in Nat
        /\ DOMAIN ret.os = {"distro", "version", "kernel", "architecture", "hostname"}
        /\ \A f \in DOMAIN ret.os : IsText(ret.os[f])
        /\ \A k \in 1..Len(ret.disks) :
              DOMAIN ret.disks[k] = {"mountPoint", "filesystem", "totalGB", "freeGB"}
        /\ \A k \in 1..Len(ret.network) :
              DOMAIN ret.network[k] = {"name", "ipv4", "mac", "rxBytes", "txBytes"}
        /\ Len(ret.gpus) >= 1
        /\ \A k \in 1..Len(ret.gpus) : DOMAIN ret.gpus[k] = {"adapter", "detected"}
        /\ ~osState.mounts.open => ret.disks = <<>>
        /\ osState.getifaddrs.rc # 0 => ret.network = <<>>
        /\ osState.drm = NoSources.drm => (Len(ret.gpus) = 1 /\ ~ret.gpus[1].detected)
        /\ osState.uname.rc # 0 =>
              (ret.os.kernel = <<>> /\ ret.os.architecture = <<>> /\ ret.os.hostname = <<>>)

\* a snapshot came back although "cpu cores" and an rx_bytes file do not
\* parse, sysinfo fails, a statvfs call fails and getnameinfo fails
C1_Witness ==
    /\ called = "collectSystemSnapshot"
    /\ ~escaped
    /\ \E i \in 1..Len(osState.cpuinfo.lines) :
          /\ FindChar(osState.cpuinfo.lines[i], ":") # 0
          /\ trim(SubSeq(osState.cpuinfo.lines[i], 1,
                         FindChar(osState.cpuinfo.lines[i], ":") - 1)) = S_cpu_cores
          /\ stoul(trim(Drop(osState.cpuinfo.lines[i],
                             FindChar(osState.cpuinfo.lines[i], ":")))).threw
    /\ \E k \in 1..Len(ret.network) :
          /\ readFileFirstLine(SysNetOf(osState, ret.network[k].name).rx_bytes) # <<>>
          /\ stoull(readFileFirstLine(SysNetOf(osState, ret.network[k].name).rx_bytes)).threw
    /\ osState.sysinfo.rc # 0
    /\ \E i \in 1..Len(osState.statvfs) : osState.statvfs[i].rc # 0
    /\ \E i \in 1..Len(osState.getifaddrs.list) :
          osState.getifaddrs.list[i].hasAddr /\ osState.getifaddrs.list[i].rc # 0
    /\ ret.disks # <<>>

----------------------------------------------------------------------------
(* Properties of the CPU probe *)

CpuText == osState.cpuinfo.lines

\* the lines of the processor description that have a ':' and the given key
CpuLinesWithKey(key) ==
    {i \in 1..Len(CpuText) :
        /\ FindChar(CpuText[i], ":") > 0
        /\ trim(SubSeq(CpuText[i], 1, FindChar(CpuText[i], ":") - 1)) = key}

CpuValueAt(i) == trim(Drop(CpuText[i], FindChar(CpuText[i], ":")))

Greatest(S) == CHOOSE i \in S : \A j \in S : j <= i

\* the "cpu cores" lines whose value converts to a count other than 0
CoresLinesThatSet ==
    {i \in CpuLinesWithKey(S_cpu_cores) :
        ~stoul(CpuValueAt(i)).threw /\ stoul(CpuValueAt(i)).val # 0}

\* the "cpu MHz" lines whose value converts to a number
MHzLinesParsed == {i \in CpuLinesWithKey(S_cpu_MHz) : ~stod(CpuValueAt(i)).threw}

MHzLinesPositive == {i \in MHzLinesParsed : stod(CpuValueAt(i)).val > 0}

ModelLinesNonEmpty == {i \in CpuLinesWithKey(S_model_name) : CpuValueAt(i) # <<>>}

\* C11 as stated: the first "cpu cores" line and the first "cpu MHz" line of
\* the processor description decide physicalCores and currentMHz, also when
\* their value is 0 or does not parse (the field then stays at its default
\* whatever later lines say); model is the value of the first "model name"
\* line with a non-empty value.
C11_FirstLineDecides ==
    called = "collectCpuInfo" =>
        /\ ~escaped
        /\ ret.physicalCores =
              (IF CpuLinesWithKey(S_cpu_cores) = {} THEN 0
               ELSE LET r == stoul(CpuValueAt(Least(CpuLinesWithKey(S_cpu_cores))))
                    IN  IF r.threw THEN 0 ELSE r.val)
        /\ ret.currentMHz =
              (IF CpuLinesWithKey(S_cpu_MHz) = {} THEN 0
               ELSE LET r == stod(CpuValueAt(Least(CpuLinesWithKey(S_cpu_MHz))))
                    IN  IF r.threw THEN 0 ELSE r.val)
        /\ ret.model =
              (IF ModelLinesNonEmpty = {} THEN <<>>
               ELSE CpuValueAt(Least(ModelLinesNonEmpty)))

\* C11 (amended): physicalCores is the value of the first "cpu cores" line
\* whose value converts to a count other than 0, and 0 when there is none;
\* currentMHz is the value of the first "cpu MHz" line whose value converts
\* to a number above 0 and, when there is none, the value of the last
\* "cpu MHz" line that converts at all (0 when none does); a line whose
\* value is 0, negative or unparsable therefore does not keep a later line
\* with the same key from setting the field.  model is the value of the
\* first "model name" line with a non-empty value.
C11_FirstEffectiveLineWins ==
    called = "collectCpuInfo" =>
        /\ ~escaped
        /\ ret.logicalThreads = osState.hardware_concurrency
        /\ ret.physicalCores =
              (IF CoresLinesThatSet = {} THEN 0
               ELSE stoul(CpuValueAt(Least(CoresLinesThatSet))).val)
        /\ ret.currentMHz =
              (IF MHzLinesPositive # {} THEN stod(CpuValueAt(Least(MHzLinesPositive))).val
               ELSE IF MHzLinesParsed # {} THEN stod(CpuValueAt(Greatest(MHzLinesParsed))).val
               ELSE 0)
        /\ ret.model =
              (IF ModelLinesNonEmpty = {} THEN <<>>
               ELSE CpuValueAt(Least(ModelLinesNonEmpty)))

\* a first "cpu cores" line that is 0 or unparsable, a later one that sets
\* the count, and a second "cpu MHz" line that is passed over
C11_Witness ==
    /\ called = "collectCpuInfo"
    /\ CoresLinesThatSet # {}
    /\ Least(CpuLinesWithKey(S_cpu_cores)) \notin CoresLinesThatSet
    /\ ret.physicalCores # 0
    /\ Len(CpuText) = MaxCpuLines

----------------------------------------------------------------------------
(* Properties of the OS probe *)

OsText == osState.osrelease.lines

\* the lines of the release descriptor whose text before the first '=' is key
OsLinesWithKey(key) ==
    {i \in 1..Len(OsText) :
        /\ FindChar(OsText[i], "=") > 0
        /\ SubSeq(OsText[i], 1, FindChar(OsText[i], "=") - 1) = key}

\* the text after the first '=' of line i, as written in the file
OsRawValueAt(i) == Drop(OsText[i], FindChar(OsText[i], "="))

\* C12: distro (version) is the value of the last PRETTY_NAME (VERSION_ID)
\* line of the release descriptor in file order, also when that value is
\* empty, and is empty when there is no such line; the key of a line is the
\* text before its first '=', so lines with another key or without '='
\* change neither field, and the three uname fields are not touched.
C12_LastKeyWins ==
    called = "collectOsInfo" =>
        /\ ~escaped
        /\ ret.distro =
              (IF OsLinesWithKey(S_PRETTY_NAME) = {} THEN <<>>
               ELSE Unquote(OsRawValueAt(Greatest(OsLinesWithKey(S_PRETTY_NAME)))))
        /\ ret.version =
              (IF OsLinesWithKey(S_VERSION_ID) = {} THEN <<>>
               ELSE Unquote(OsRawValueAt(Greatest(OsLinesWithKey(S_VERSION_ID)))))
        /\ ret.kernel = (IF osState.uname.rc = 0 THEN osState.uname.release ELSE <<>>)
        /\ ret.architecture = (IF osState.uname.rc = 0 THEN osState.uname.machine ELSE <<>>)
        /\ ret.hostname = (IF osState.uname.rc = 0 THEN osState.uname.nodename ELSE <<>>)

\* a non-empty PRETTY_NAME followed by an empty one, then a line of another
\* key that contains the text PRETTY_NAME: distro ends up empty
C12_Witness ==
    /\ called = "collectOsInfo"
    /\ Len(OsText) = MaxOsLines
    /\ Cardinality(OsLinesWithKey(S_PRETTY_NAME)) = 2
    /\ OsRawValueAt(Least(OsLinesWithKey(S_PRETTY_NAME))) # <<>>
    /\ OsRawValueAt(Greatest(OsLinesWithKey(S_PRETTY_NAME))) = <<>>
    /\ Greatest(OsLinesWithKey(S_PRETTY_NAME)) < MaxOsLines
    /\ ret.distro = <<>>

\* what the claim says of a value v: one layer of quotes off when v starts
\* and ends with a double quote, empty for the single double quote, v otherwise
OneLayerOff(v) ==
    IF Len(v) >= 2 /\ v[1] = "\"" /\ v[Len(v)] = "\"" THEN SubSeq(v, 2, Len(v) - 1)
    ELSE IF v = <<"\"">> THEN <<>>
    ELSE v

\* C19: the value stored for PRETTY_NAME / VERSION_ID has exactly one layer
\* of double quotes removed when it starts and ends with a double quote and
\* is the file's text otherwise (a quote on one end only, or none); the value
\* that is a single double quote is stored as the empty text, and no
\* exception leaves the probe.
C19_OneQuoteLayerRemoved ==
    called = "collectOsInfo" =>
        /\ ~escaped
        /\ OsLinesWithKey(S_PRETTY_NAME) # {} =>
              ret.distro = OneLayerOff(OsRawValueAt(Greatest(OsLinesWithKey(S_PRETTY_NAME))))
        /\ OsLinesWithKey(S_VERSION_ID) # {} =>
              ret.version = OneLayerOff(OsRawValueAt(Greatest(OsLinesWithKey(S_VERSION_ID))))

\* version comes from the single double quote, distro from a value quoted on
\* one end only
C19_Witness ==
    /\ called = "collectOsInfo"
    /\ ~escaped
    /\ OsLinesWithKey(S_VERSION_ID) # {}
    /\ OsRawValueAt(Greatest(OsLinesWithKey(S_VERSION_ID))) = <<"\"">>
    /\ ret.version = <<>>
    /\ OsLinesWithKey(S_PRETTY_NAME) # {}
    /\ OsRawValueAt(Greatest(OsLinesWithKey(S_PRETTY_NAME))) = <<"x", "\"">>
    /\ ret.distro = <<"x", "\"">>

----------------------------------------------------------------------------
(* Properties of the network probe: counters and addresses *)

\* what a counter text gives when parsed on its own: 0 when the text is
\* empty (source absent or empty) or is not a number that fits 64 bits
CounterOnItsOwn(text) ==
    IF text = <<>> \/ stoull(text).threw THEN 0 ELSE stoull(text).val

\* C17 as stated: each counter of an interface is parsed on its own: rxBytes
\* is what the rx_bytes source gives (0 when absent, empty or not a number)
\* and txBytes is what the tx_bytes source gives, whatever became of the
\* other counter.
C17_CountersIndependent ==
    (called = "collectNetworkInfo" /\ osState.getifaddrs.rc = 0) =>
        \A n \in ReportedNames : \A k \in NetEntriesFor(n) :
            /\ ret[k].rxBytes =
                  CounterOnItsOwn(readFileFirstLine(SysNetOf(osState, n).rx_bytes))
            /\ ret[k].txBytes =
                  CounterOnItsOwn(readFileFirstLine(SysNetOf(osState, n).tx_bytes))

\* the nodes of interface n that carry an IPv4-family address whose numeric
\* resolution succeeded
ResolvedIpv4Nodes(n) ==
    {i \in 1..Len(IfaddrList) :
        /\ IfaddrList[i].hasName /\ IfaddrList[i].name = n
        /\ IfaddrList[i].hasAddr
        /\ IfaddrList[i].family = "AF_INET"
        /\ IfaddrList[i].rc = 0}

\* C18: the ipv4 of an interface is the text of the last node of that name,
\* in iteration order, that has an IPv4-family address whose resolution
\* succeeded, and is empty when there is no such node; nodes of another
\* family, without address or with a failed resolution neither change nor
\* clear it.
C18_LastResolvedIpv4 ==
    (called = "collectNetworkInfo" /\ osState.getifaddrs.rc = 0) =>
        /\ ~escaped
        /\ \A n \in ReportedNames :
              /\ Cardinality(NetEntriesFor(n)) = 1
              /\ \A k \in NetEntriesFor(n) :
                    ret[k].ipv4 =
                      (IF ResolvedIpv4Nodes(n) = {} THEN <<>>
                       ELSE IfaddrList[Greatest(ResolvedIpv4Nodes(n))].host)

\* two resolved IPv4 addresses of one interface followed by a node that
\* does not resolve or is of another family: the second address is kept
C18_Witness ==
    /\ called = "collectNetworkInfo"
    /\ Len(IfaddrList) = MaxIfaddrs
    /\ \E n \in ReportedNames :
          /\ Cardinality(ResolvedIpv4Nodes(n)) = 2
          /\ IfaddrList[Least(ResolvedIpv4Nodes(n))].host
                # IfaddrList[Greatest(ResolvedIpv4Nodes(n))].host
          /\ Greatest(ResolvedIpv4Nodes(n)) < Len(IfaddrList)
          /\ IfaddrList[Len(IfaddrList)].hasName
          /\ IfaddrList[Len(IfaddrList)].name = n
          /\ IfaddrList[Len(IfaddrList)].hasAddr
          /\ \A k \in NetEntriesFor(n) :
                ret[k].ipv4 = IfaddrList[Greatest(ResolvedIpv4Nodes(n))].host

----------------------------------------------------------------------------
(* Properties of repeated collection *)

----------------------------------------------------------------------------
(* Properties of the report renderer *)

\* the lines of the report returned by the last call
ReportLines == split(ret, "\n")

\* a literal without its final line feed
Chomp(text) == SubSeq(text, 1, Len(text) - 1)

LinesEqualTo(lines, line) == {i \in 1..Len(lines) : lines[i] = line}

\* the lines between a section header and the next empty line
SectionLines(lines, header) ==
    LET start == Least(LinesEqualTo(lines, Chomp(header)))
        stops == {j \in (start + 1)..(Len(lines) + 1) :
                     j = Len(lines) + 1 \/ lines[j] = <<>>}
        stop  == Least(stops)
    IN  SubSeq(lines, start + 1, stop - 1)

EndsWith(text, suffix) ==
    /\ Len(text) >= Len(suffix)
    /\ SubSeq(text, Len(text) - Len(suffix) + 1, Len(text)) = suffix

\* what the report shows for a text field
Shown(text) == IF text = <<>> THEN <<"N", "/", "A">> ELSE text

EmptyOsFields ==
    {f \in {"distro", "version", "kernel", "architecture", "hostname"} :
        snapshot.os[f] = <<>>}

\* C13: the [OS] section has one line for each of Distro, Version, Kernel,
\* Arch and Host, in this order, showing "N/A" when the field is empty and
\* the field's text otherwise, so that "N/A" appears once for every empty
\* field (five times when all are empty); the Model line of [CPU] and the
\* ipv4 and mac of every interface line follow the same rule.
C13_EmptyTextShownAsNA ==
    called = "renderReport" =>
        LET lines  == ReportLines
            osSec  == SectionLines(lines, R_OS)
            cpuSec == SectionLines(lines, R_CPU)
            netSec == SectionLines(lines, R_Network)
        IN  /\ osSec = << <<"D", "i", "s", "t", "r", "o", ":", " ">>
                              \o Shown(snapshot.os.distro),
                          <<"V", "e", "r", "s", "i", "o", "n", ":", " ">>
                              \o Shown(snapshot.os.version),
                          <<"K", "e", "r", "n", "e", "l", ":", " ">>
                              \o Shown(snapshot.os.kernel),
                          <<"A", "r", "c", "h", ":", " ">>
                              \o Shown(snapshot.os.architecture),
                          <<"H", "o", "s", "t", ":", " ">>
                              \o Shown(snapshot.os.hostname) >>
            /\ Cardinality({i \in 1..Len(osSec) :
                                EndsWith(osSec[i], <<" ", "N", "/", "A">>)})
                  = Cardinality(EmptyOsFields)
            /\ cpuSec[1] = <<"M", "o", "d", "e", "l", ":", " ">>
                              \o Shown(snapshot.cpu.model)
            /\ \A k \in 1..Len(snapshot.network) :
                  netSec[k] =
                      snapshot.network[k].name
                      \o <<" ", "i", "p", "v", "4", "=">>
                      \o Shown(snapshot.network[k].ipv4)
                      \o <<" ", "m", "a", "c", "=">> \o Shown(snapshot.network[k].mac)
                      \o <<" ", "r", "x", "=">>
                      \o to_string(snapshot.network[k].rxBytes)
                      \o <<" ", "t", "x", "=">>
                      \o to_string(snapshot.network[k].txBytes)

\* all five OS fields empty, a CPU model, and two interfaces of which one
\* has an ipv4 but no mac and the other a mac but no ipv4
C13_Witness ==
    /\ called = "renderReport"
    /\ Cardinality(EmptyOsFields) = 5
    /\ snapshot.cpu.model # <<>>
    /\ Len(snapshot.network) = 2
    /\ snapshot.network[1].ipv4 # <<>> /\ snapshot.network[1].mac = <<>>
    /\ snapshot.network[2].ipv4 = <<>> /\ snapshot.network[2].mac # <<>>
    /\ Cardinality(LinesEqualTo(ReportLines, <<"D", "i", "s", "t", "r", "o", ":", " ">>
        \o <<"N", "/", "A">>)) = 1

\* C14: the report has the line "No mounted disks detected" exactly when the
\* disks sequence is empty and the line "No network interfaces detected"
\* exactly when the network sequence is empty; a non-empty sequence gives its
\* section one line per entry, in the order of the sequence.
C14_EmptySequenceNotices ==
    called = "renderReport" =>
        LET lines   == ReportLines
            diskSec == SectionLines(lines, R_Disks)
            netSec  == SectionLines(lines, R_Network)
        IN  /\ (LinesEqualTo(lines, Chomp(R_NoDisks)) # {}) = (snapshot.disks = <<>>)
            /\ (LinesEqualTo(lines, Chomp(R_NoNetwork)) # {}) = (snapshot.network = <<>>)
            /\ snapshot.disks = <<>> => diskSec = <<Chomp(R_NoDisks)>>
            /\ snapshot.network = <<>> => netSec = <<Chomp(R_NoNetwork)>>
            /\ snapshot.disks # <<>> =>
                  /\ Len(diskSec) = Len(snapshot.disks)
                  /\ \A k \in 1..Len(snapshot.disks) :
                        diskSec[k] =
                            snapshot.disks[k].mountPoint \o <<" ", "(">>
                            \o snapshot.disks[k].filesystem
                            \o <<")", " ", "t", "o", "t", "a", "l", "=">>
                            \o to_string(snapshot.disks[k].totalGB)
                            \o <<"G", "B", " ", "f", "r", "e", "e", "=">>
                            \o to_string(snapshot.disks[k].freeGB) \o <<"G", "B">>
            /\ snapshot.network # <<>> =>
                  /\ Len(netSec) = Len(snapshot.network)
                  /\ \A k \in 1..Len(snapshot.network) :
                        StartsWith(netSec[k], snapshot.network[k].name
                            \o <<" ", "i", "p", "v", "4", "=">>)

\* no disks, and two interfaces printed in the order of the sequence
C14_Witness ==
    /\ called = "renderReport"
    /\ snapshot.disks = <<>>
    /\ Len(snapshot.network) = 2
    /\ LET lines == ReportLines
       IN  /\ LinesEqualTo(lines, Chomp(R_NoDisks)) # {}
           /\ LinesEqualTo(lines, Chomp(R_NoNetwork)) = {}

SectionHeaders == <<R_OS, R_CPU, R_Memory, R_Disks, R_Network, R_GPU>>

PassesFilters_Reduced(parts, seen) ==
    /\ Len(parts) >= 4
    /\ ~(parts[3] \in pseudo \/ parts[2] \in seen)
    /\ StartsWith(parts[1], DevPrefix)
    /\ ~Contains(parts[4], BindMarker)
    /\ isUsefulMountPoint(parts[2])

DiskStep_Reduced(line, st, acc) ==
    LET parts == split(line, " ")
    IN  IF ~PassesFilters_Reduced(parts, acc.seen) THEN acc
        ELSE IF st.rc # 0 THEN acc
        ELSE [seen  |-> acc.seen \cup {parts[2]},
              disks |-> Append(acc.disks,
                               [mountPoint |-> parts[2],
                                filesystem |-> parts[3],
                                totalGB |-> bytesToGB(st.f_blocks * st.f_frsize),
                                freeGB  |-> bytesToGB(st.f_bavail * st.f_frsize)])]

RECURSIVE DiskLoop_Reduced(_, _, _, _)
DiskLoop_Reduced(lines, statvfs, i, acc) ==
    IF i > Len(lines) THEN acc
    ELSE DiskLoop_Reduced(lines, statvfs, i + 1,
                          DiskStep_Reduced(lines[i], statvfs[i], acc))

collectDiskInfo_Reduced(os) ==
    IF ~os.mounts.open THEN Return(<<>>)
    ELSE Return(SortDisks(DiskLoop_Reduced(os.mounts.lines, os.statvfs, 1,
                                           [seen |-> {}, disks |-> <<>>]).disks))

\* line i gets as far as the hidden-path check (it has four fields, a real
\* filesystem, a /dev/ source, no bind option) and its capacity query succeeds
ReachesHiddenCheck(i) ==
    /\ Len(PartsOf(i)) >= 4
    /\ PartsOf(i)[3] \notin pseudo
    /\ StartsWith(PartsOf(i)[1], DevPrefix)
    /\ ~Contains(PartsOf(i)[4], BindMarker)
    /\ osState.statvfs[i].rc = 0

\* C21: the hidden-path check and the depth check never decide the result:
\* for every mount table and every outcome of the capacity queries the probe
\* returns what the probe without these two checks returns, and no mount
\* point of the allow-list is rejected by either check, /boot/efi passing the
\* depth check by its depth (2) and not by its exception
C21_HiddenAndDepthRedundant ==
    /\ called = "collectDiskInfo" =>
          /\ ret = collectDiskInfo_Reduced(osState).value
          /\ escaped = collectDiskInfo_Reduced(osState).threw
    /\ \A mp \in allowedExact :
          /\ ~Contains(mp, HiddenMark)
          /\ mountDepth(mp) <= 2

\* reached: a table with a hidden mount point and a deep one, both on lines
\* that get as far as the two checks, next to a line that yields an entry
C21_Witness ==
    /\ called = "collectDiskInfo"
    /\ ret # <<>>
    /\ \E i \in 1..Len(MountTable) :
          /\ ReachesHiddenCheck(i)
          /\ Contains(PartsOf(i)[2], HiddenMark)
    /\ \E i \in 1..Len(MountTable) :
          /\ ReachesHiddenCheck(i)
          /\ ~Contains(PartsOf(i)[2], HiddenMark)
          /\ mountDepth(PartsOf(i)[2]) > 2
    /\ \E i \in 1..Len(MountTable) :
          /\ ReachesHiddenCheck(i)
          /\ PartsOf(i)[2] = S_bootefi
          /\ EntriesFor(S_bootefi) # {}

====
